---- MODULE Spec2Model ----
(***************************************************************************)
(* The storage subsystem of peasant-budget: the storage orchestrator       *)
(* (StorageContext.jsx), the local provider (LocalStorageProvider.js),     *)
(* the remote provider (GoogleDriveProvider, in main.jsx), the encryption  *)
(* module (encryption.js) and the envelope helpers (StorageProvider.js).   *)
(*                                                                         *)
(* Abstractions: an envelope's exportedAt timestamp and provider tag are   *)
(* not carried (no claim reads them); a ciphertext is the triple of the    *)
(* passphrase, the salt and the plaintext it was made from, which decrypt  *)
(* opens exactly when passphrase and salt agree (AES-GCM with a PBKDF2     *)
(* key); one network request either takes effect and answers, or fails     *)
(* without effect.                                                         *)
(***************************************************************************)
EXTENDS Naturals, Sequences, FiniteSets, TLC

\* ------------------------------------------------------------------ bounds

\* Mutator and forceSync calls made in one run.
MaxOps == 2
\* switchProvider and signOut calls made in one run.
MaxSwitches == 2
\* Longest transaction list a mutator may build.
MaxTx == 2
\* doSave calls the orchestrator may have awaiting provider.save() at once.
MaxInflight == 2

\* ---------------------------------------------------------------- constants

LocalId == "local"
DriveId == "google-drive"
ProviderIds == {LocalId, DriveId}
NoProvider == "none"

\* Transaction ids the callers supply, and the lists a bulk call passes.
Ids == {"a", "b"}
BulkLists == {<<"a">>, <<"b", "a">>}
IdLists == {<<"a">>, <<"a", "b">>}

\* Settings / pay-period objects: one key, absent (0) or holding value 1 or 2.
Absent == 0
Objects == {0, 1, 2}
Patches == {1, 2}

\* Passphrases: two that pass validatePassphrase and one that is too short.
NoPass == "null"
StrongPass == {"Str0ngPass1", "0therPass2"}
WeakPass == "short"
Passphrases == StrongPass \cup {WeakPass}

\* Salts: 0 is "no salt stored"; each generated salt is a new number.
NoSalt == 0

\* ---------------------------------------------------------------- envelopes

DATA_FORMAT_VERSION == "1.0"

NullEnv == [null |-> TRUE]

\* {...a, ...b} over the one-key objects above.
Spread(a, b) == IF b # Absent THEN b ELSE a

\* A createBudgetData that leaves the version empty.
createBudgetDataUnversioned(tx, settings, ppc) ==
  [version |-> "", tx |-> tx, settings |-> settings, ppc |-> ppc]

createBudgetData(tx, settings, ppc) ==
  [version |-> DATA_FORMAT_VERSION, tx |-> tx, settings |-> settings, ppc |-> ppc]

\* A loadData that would start a new user off with a sample transaction.
EmptyDataWithSample == createBudgetData(<<"a">>, Absent, Absent)

\* The envelope loadData builds when load() returns nothing.
EmptyData == createBudgetData(<<>>, Absent, Absent)

TxOf(env) == IF env = NullEnv THEN <<>> ELSE env.tx

\* Array.prototype.filter over a transaction list.
RECURSIVE Filter(_, _)
Filter(s, drop) ==
  IF s = <<>> THEN <<>>
  ELSE IF Head(s) \in drop THEN Filter(Tail(s), drop)
       ELSE <<Head(s)>> \o Filter(Tail(s), drop)

Range(s) == {s[i] : i \in 1..Len(s)}

\* ------------------------------------------------------------ stored records

\* What the data key of localStorage holds.
NoRecord == [kind |-> "none"]
Plain(env) == [kind |-> "plain", env |-> env]
Cipher(env, pass, salt) == [kind |-> "cipher", env |-> env, key |-> pass, salt |-> salt]
Garbage == [kind |-> "garbage"]

\* encryption.js encrypt(): a passphrase shorter than 8 is rejected.
EncryptAccepts(pass) == pass # NoPass /\ pass # WeakPass

\* encryption.js decrypt(): opens a blob made with the same passphrase and salt.
DecryptOpens(rec, pass, salt) ==
  rec.kind = "cipher" /\ rec.key = pass /\ rec.salt = salt /\ salt # NoSalt

\* ------------------------------------------------------------------ state

VARIABLES
  ls,          \* localStorage: data key, encryption flag, salt, provider preference, legacy
               \* keys, and the remote provider's token, token time and remember-session keys
  saltGen,     \* how many salts have been generated on this device
  drive,       \* the remote app-data folder: the sequence of files named FILE_NAME
  cfg,         \* the build's environment: is VITE_GOOGLE_CLIENT_ID configured
  now,         \* Date.now(), in milliseconds since the run began
  tab,         \* another tab of the same origin: its writes and the storage event they raise
  cr,          \* a run of encrypt() followed by decrypt(): arguments, blob and result
  mig,         \* a run of validateAndMigrateBudgetData: its argument and results
  lsp,         \* the LocalStorageProvider instance
  gdp,         \* the GoogleDriveProvider instance
  orch,        \* StorageContext state: providerId, provider, data, rendered data, error, isLoading
  pendingData, \* pendingDataRef.current
  saveTimeout, \* saveTimeoutRef.current: NoProvider, or the provider its doSave closes over
  inflight,    \* doSave calls awaiting provider.save()
  sw,          \* the switchProvider call in progress
  ld,          \* the loadData runs in progress
  pcall,       \* a provider call made directly by a component, in progress
  last,        \* the outcome of the provider call that completed last
  hist,        \* bookkeeping of the current burst of mutations
  ops          \* calls made so far

vars == <<now, tab, cr, mig, ls, saltGen, drive, cfg, lsp, gdp, orch, pendingData, saveTimeout,
          inflight, sw, ld, pcall, last, hist, ops>>

\* Neither encrypt() nor decrypt() has been called.
NoCrypt == [pc |-> "idle"]

\* validateAndMigrateBudgetData has not been called.
NoMig == [pc |-> "idle"]

\* ------------------------------------------------------------- sync status

NoErr == "null"
ErrPassphrase == "Passphrase required to decrypt data"
ErrDecrypt == "Failed to decrypt data. Check your passphrase."
ErrParse == "Unexpected token"
ErrEncrypt == "Failed to encrypt data"
ErrQuota == "Storage quota exceeded. Please export your data and clear old entries."
ErrNotAuth == "Not authenticated"
ErrApi == "API request failed"

\* A status update that keeps the message of an earlier error when it is given
\* none.
UpdateSyncStatusKeepsError(p, status, error) ==
  [p EXCEPT !.status = status, !.error = IF error = NoErr THEN @ ELSE error]

\* _updateSyncStatus(status, error) of either provider.
UpdateSyncStatus(p, status, error) == [p EXCEPT !.status = status, !.error = error]

\* The providers and the stores they write, passed around as one record.
World == [ls |-> ls, saltGen |-> saltGen, drive |-> drive, lsp |-> lsp, gdp |-> gdp]

SetWorld(w) ==
  /\ ls' = w.ls
  /\ saltGen' = w.saltGen
  /\ drive' = w.drive
  /\ lsp' = w.lsp
  /\ gdp' = w.gdp

\* What the environment does to one storage or network request.
Outcomes == {"ok", "fail"}

\* -------------------------------------------------------- encryption module

\* A getOrCreateSalt() that generates and stores a new salt on every call.
getFreshSalt(w) == [w EXCEPT !.ls.salt = w.saltGen + 1, !.saltGen = w.saltGen + 1]

\* getOrCreateSalt(): the stored salt, or a newly generated one that it stores.
getOrCreateSalt(w) ==
  IF w.ls.salt # NoSalt THEN w
  ELSE [w EXCEPT !.ls.salt = w.saltGen + 1, !.saltGen = w.saltGen + 1]

\* isEncryptionEnabled(): the persisted flag.
isEncryptionEnabled(w) == w.ls.flag

\* An array read from a file, and an object that carries no version: the
\* formats before envelopes. A field the object lacks is Absent, or the empty
\* list for the transactions.
RawArray(tx) == [array |-> tx]
RawObject(tx, settings, ppc) == [tx |-> tx, settings |-> settings, ppc |-> ppc]

\* A migration without the Array.isArray test: an array has no transactions
\* property, so its elements are dropped.
validateAndMigrateObjectsOnly(raw) ==
  IF "version" \in DOMAIN raw
  THEN IF raw.version # "" THEN raw ELSE createBudgetData(<<>>, Absent, Absent)
  ELSE IF "array" \in DOMAIN raw THEN createBudgetData(<<>>, Absent, Absent)
  ELSE createBudgetData(raw.tx, raw.settings, raw.ppc)

\* validateAndMigrateBudgetData: an object whose version is truthy is returned as
\* it is; anything else is wrapped into an envelope of the current version from
\* the transactions, settings and pay-period configuration found at its top
\* level, where an envelope has none.
validateAndMigrateBudgetData(raw) ==
  IF "version" \in DOMAIN raw
  THEN IF raw.version # "" THEN raw ELSE createBudgetData(<<>>, Absent, Absent)
  ELSE IF "array" \in DOMAIN raw THEN createBudgetData(raw.array, Absent, Absent)
  ELSE createBudgetData(raw.tx, raw.settings, raw.ppc)

\* ------------------------------------------------------------ local provider

\* A load() whose catch block returns null where the code rethrows.
LocalLoadSwallows(w, msg) ==
  [w |-> [w EXCEPT !.lsp = UpdateSyncStatus(w.lsp, "error", msg)],
   ret |-> NullEnv, threw |-> FALSE]

\* LocalStorageProvider.load(): the world after it, what it returns, whether it threw.
LocalLoadThrows(w, msg) ==
  [w |-> [w EXCEPT !.lsp = UpdateSyncStatus(w.lsp, "error", msg)],
   ret |-> NullEnv, threw |-> TRUE]

LocalLoadReturns(w, e) ==
  [w |-> [w EXCEPT !.lsp = UpdateSyncStatus(w.lsp, "synced", NoErr)],
   ret |-> e, threw |-> FALSE]

LocalLoad(w) ==
  LET stored == w.ls.data IN
  IF stored.kind = "none" THEN LocalLoadReturns(w, NullEnv)
  ELSE IF w.lsp.encryptionEnabled /\ isEncryptionEnabled(w) THEN
    IF w.lsp.passphrase = NoPass THEN LocalLoadThrows(w, ErrPassphrase)
    ELSE LET w2 == getOrCreateSalt(w) IN
         IF DecryptOpens(stored, w.lsp.passphrase, w2.ls.salt)
         THEN LocalLoadReturns(w2, validateAndMigrateBudgetData(stored.env))
         ELSE LocalLoadThrows(w2, ErrDecrypt)
  ELSE IF stored.kind = "plain"
       THEN LocalLoadReturns(w, validateAndMigrateBudgetData(stored.env))
       ELSE LocalLoadThrows(w, ErrParse)

\* LocalStorageProvider.save(data) up to its first suspension. Without encryption
\* there is none and the call is complete; with it the call waits for encrypt().
NoCall == [kind |-> "none"]

\* A save() whose catch block returns false and leaves the status as it is.
LocalSaveFailsQuietly(w, msg) ==
  [w |-> w, done |-> TRUE, ret |-> FALSE, call |-> NoCall]

\* save()'s catch block: status error with the message, false returned.
LocalSaveFails(w, msg) ==
  [w |-> [w EXCEPT !.lsp = UpdateSyncStatus(w.lsp, "error", msg)],
   done |-> TRUE, ret |-> FALSE, call |-> NoCall]

\* A setItem after which save() returns true without touching the status.
LocalSetItemKeepsStatus(w, rec, outcome) ==
  IF outcome = "ok"
  THEN [w |-> [w EXCEPT !.ls.data = rec], done |-> TRUE, ret |-> TRUE, call |-> NoCall]
  ELSE LocalSaveFails(w, ErrQuota)

LocalSetItem(w, rec, outcome) ==
  IF outcome = "ok"
  THEN [w |-> [w EXCEPT !.ls.data = rec, !.lsp = UpdateSyncStatus(w.lsp, "synced", NoErr)],
        done |-> TRUE, ret |-> TRUE, call |-> NoCall]
  ELSE LocalSaveFails(w, ErrQuota)

LocalSaveBegin(w, e, outcome) ==
  LET w1 == [w EXCEPT !.lsp = UpdateSyncStatus(w.lsp, "syncing", NoErr)] IN
  IF w1.lsp.encryptionEnabled /\ w1.lsp.passphrase # NoPass THEN
    IF ~EncryptAccepts(w1.lsp.passphrase) THEN LocalSaveFails(w1, ErrEncrypt)
    ELSE LET w2 == getOrCreateSalt(w1) IN
         [w |-> w2, done |-> FALSE, ret |-> FALSE,
          call |-> [kind |-> "encrypt", prov |-> LocalId, env |-> e,
                    key |-> w1.lsp.passphrase, salt |-> w2.ls.salt]]
  ELSE LocalSetItem(w1, Plain(e), outcome)

\* The rest of LocalStorageProvider.save once encrypt() has resolved.
LocalSaveEnd(w, call, outcome) ==
  LocalSetItem(w, Cipher(call.env, call.key, call.salt), outcome)

\* ----------------------------------------------------------- remote provider

NoFile == 0

\* The files of the folder that have not been deleted, and the one a files.list
\* query names first.
Files(d) == {i \in 1..Len(d) : d[i] # NullEnv}
FirstFile(d) == CHOOSE i \in Files(d) : \A j \in Files(d) : i <= j

\* A remote save() whose catch block returns false and leaves the status as it
\* is.
DriveSaveFailsQuietly(w, msg) ==
  [w |-> w, done |-> TRUE, ret |-> FALSE, call |-> NoCall]

DriveSaveFails(w, msg) ==
  [w |-> [w EXCEPT !.gdp = UpdateSyncStatus(w.gdp, "error", msg)],
   done |-> TRUE, ret |-> FALSE, call |-> NoCall]

\* GoogleDriveProvider.save(data) up to its request: _updateFile when a file id
\* is held, _createFile otherwise; _apiRequest throws without a token.
DriveSaveBegin(w, e) ==
  LET w1 == [w EXCEPT !.gdp = UpdateSyncStatus(w.gdp, "syncing", NoErr)] IN
  IF ~w1.gdp.accessToken THEN DriveSaveFails(w1, ErrNotAuth)
  ELSE [w |-> w1, done |-> FALSE, ret |-> FALSE,
        call |-> [kind |-> IF w1.gdp.fileId # NoFile THEN "update" ELSE "create",
                  prov |-> DriveId, env |-> e, fileId |-> w1.gdp.fileId]]

\* The rest of GoogleDriveProvider.save once the request has been answered.
DriveSaveEnd(w, call, outcome) ==
  IF outcome # "ok" THEN DriveSaveFails(w, ErrApi)
  ELSE IF call.kind = "update"
  THEN IF call.fileId \notin Files(w.drive) THEN DriveSaveFails(w, ErrApi)
       ELSE
       [w |-> [w EXCEPT !.drive[call.fileId] = call.env,
                        !.gdp = UpdateSyncStatus(w.gdp, "synced", NoErr)],
        done |-> TRUE, ret |-> TRUE, call |-> NoCall]
  ELSE [w |-> [w EXCEPT !.drive = Append(w.drive, call.env),
                        !.gdp = [UpdateSyncStatus(w.gdp, "synced", NoErr)
                                   EXCEPT !.fileId = Len(w.drive) + 1]],
        done |-> TRUE, ret |-> TRUE, call |-> NoCall]

\* GoogleDriveProvider.load(): _findFile, then _readFile; any throw is caught and
\* null returned. findOk / readOk are the two requests' outcomes.
DriveLoad(w, findOk, readOk) ==
  LET w1 == [w EXCEPT !.gdp = UpdateSyncStatus(w.gdp, "syncing", NoErr)]
      failed(x, msg) == [w |-> [x EXCEPT !.gdp = UpdateSyncStatus(x.gdp, "error", msg)],
                         ret |-> NullEnv, threw |-> FALSE]
  IN
  IF ~w1.gdp.accessToken THEN failed(w1, ErrNotAuth)
  ELSE IF findOk # "ok" THEN failed(w1, ErrApi)
  ELSE LET w2 == IF Files(w1.drive) # {}
                 THEN [w1 EXCEPT !.gdp.fileId = FirstFile(w1.drive)] ELSE w1 IN
       IF w2.gdp.fileId = NoFile
       THEN [w |-> [w2 EXCEPT !.gdp = UpdateSyncStatus(w2.gdp, "synced", NoErr)],
             ret |-> NullEnv, threw |-> FALSE]
       ELSE IF readOk # "ok" \/ w2.gdp.fileId \notin Files(w2.drive) THEN failed(w2, ErrApi)
       ELSE [w |-> [w2 EXCEPT !.gdp = UpdateSyncStatus(w2.gdp, "synced", NoErr)],
             ret |-> validateAndMigrateBudgetData(w2.drive[w2.gdp.fileId]),
             threw |-> FALSE]

\* getInfo().requiresAuth
requiresAuth(p) == p = DriveId

\* provider.save(data) up to its first suspension, for the provider named p.
SaveBegin(p, w, e, outcome) ==
  IF p = LocalId THEN LocalSaveBegin(w, e, outcome) ELSE DriveSaveBegin(w, e)

SaveEnd(w, call, outcome) ==
  IF call.prov = LocalId THEN LocalSaveEnd(w, call, outcome) ELSE DriveSaveEnd(w, call, outcome)

\* ------------------------------------------------------------- orchestrator

\* The outcome of the provider call that completed last: what it returned or
\* whether it threw, the envelope it was passed (save) or returned (load), the
\* error message its provider shows afterwards, and the message shown after the
\* call before it; tick flips on each. heard is kept from the storage event
\* handled last: the calls it made to listeners.
Outcome(op, prov, ret, threw, e, w) ==
  [op |-> op, prov |-> prov, ret |-> ret, threw |-> threw, env |-> e,
   err |-> IF prov = LocalId THEN w.lsp.error ELSE w.gdp.error,
   before |-> last.err, recent |-> last.recent, tick |-> 1 - last.tick, enc |-> last.enc,
   imp |-> last.imp, heard |-> last.heard]

\* Bookkeeping of the current burst of mutator calls. The debounce window is open
\* from a mutator call until DEBOUNCE_MS have passed without another one; a burst
\* is the calls of one window. muts: the calls of the burst; saves: the
\* provider.save() calls made since it began; lastEnv: the envelope after its last
\* call; savedEnv: the envelope last passed to provider.save(); clean: it began on
\* the local provider with no save in flight and only mutators were called since.
NoHist ==
  [open |-> FALSE, muts |-> 0, saves |-> 0, lastEnv |-> NullEnv, savedEnv |-> NullEnv,
   clean |-> FALSE, ignored |-> 0, forced |-> NullEnv]

\* A mutator call that leaves newData in memory, as the bookkeeping sees it.
Mutated(h, newData) ==
  IF h.open
  THEN [h EXCEPT !.muts = @ + 1, !.lastEnv = newData, !.forced = NullEnv]
  ELSE [open |-> TRUE, muts |-> 1, saves |-> 0, lastEnv |-> newData, savedEnv |-> NullEnv,
        clean |-> inflight = <<>> /\ orch.provider = LocalId, ignored |-> h.ignored,
        forced |-> NullEnv]

\* A saveData call site that passes immediate = true for every provider.
IsImmediateAlways(p) == TRUE

\* A saveData call site that debounces for every provider.
IsImmediateNever(p) == FALSE

\* updateTransactions / updateSettings / updatePayPeriodConfig:
\* const isCloudProvider = provider?.getInfo()?.requiresAuth
IsImmediate(p) == requiresAuth(p)

\* doSave(): writes pendingDataRef.current through the provider p it closes over,
\* and clears the pending reference once provider.save() has answered true.
\* `pend` is the reference's value when doSave starts, h the bookkeeping so far.
DoSave(p, pend, outcome, h) ==
  IF pend = NullEnv
  THEN /\ pendingData' = pend
       /\ hist' = h
       /\ UNCHANGED <<ls, saltGen, drive, lsp, gdp, inflight, last>>
  ELSE LET r == SaveBegin(p, World, pend, outcome) IN
       /\ SetWorld(r.w)
       /\ hist' = [h EXCEPT !.saves = @ + 1, !.savedEnv = pend]
       /\ IF r.done
          THEN /\ pendingData' = IF r.ret THEN NullEnv ELSE pend
               /\ inflight' = inflight
               /\ last' = Outcome("save", p, r.ret, FALSE, pend, r.w)
          ELSE /\ Len(inflight) < MaxInflight
               /\ pendingData' = pend
               /\ inflight' = Append(inflight, r.call)
               /\ last' = last

\* saveData(newData, immediate); h is the bookkeeping after the caller's part.
SaveData(newData, immediate, outcome, h) ==
  /\ orch.provider # NoProvider
  /\ orch' = [orch EXCEPT !.data = newData]
  /\ IF immediate
     THEN /\ DoSave(orch.provider, newData, outcome, h)
          /\ saveTimeout' = NoProvider
     ELSE /\ pendingData' = newData
          /\ saveTimeout' = orch.provider
          /\ hist' = h
          /\ UNCHANGED <<ls, saltGen, drive, lsp, gdp, inflight, last>>

\* A mutator that, finding no data, starts from the empty envelope.
MutatorInitializes ==
  /\ orch' = [orch EXCEPT !.data = EmptyData]
  /\ hist' = [hist EXCEPT !.ignored = @ + 1]
  /\ UNCHANGED <<pendingData, saveTimeout, ls, saltGen, drive, lsp, gdp, inflight, last>>

\* `if (!data) return;` taken, at the head of every mutator: nothing is set and
\* saveData is not called. ignored counts these calls.
MutatorReturns ==
  /\ hist' = [hist EXCEPT !.ignored = @ + 1]
  /\ UNCHANGED <<orch, pendingData, saveTimeout, ls, saltGen, drive, lsp, gdp, inflight, last>>

\* updateTransactions(transactions), called by the four transaction mutators
\* with the list they built from the rendered data.
updateTransactions(tx, outcome) ==
  /\ Len(tx) <= MaxTx
  /\ ops < MaxOps
  /\ ops' = ops + 1
  /\ IF orch.rdata = NullEnv THEN MutatorReturns
     ELSE LET newData == [orch.rdata EXCEPT !.tx = tx] IN
          SaveData(newData, IsImmediate(orch.provider), outcome, Mutated(hist, newData))
  /\ UNCHANGED <<cfg, now, tab, cr, mig, sw, ld, pcall>>

addTransaction(t, outcome) ==
  updateTransactions(<<t>> \o TxOf(orch.rdata), outcome)

addTransactions(list, outcome) ==
  /\ Len(list) > 0
  /\ updateTransactions(list \o TxOf(orch.rdata), outcome)

deleteTransaction(id, outcome) ==
  updateTransactions(Filter(TxOf(orch.rdata), {id}), outcome)

deleteTransactions(ids, outcome) ==
  /\ Len(ids) > 0
  /\ updateTransactions(Filter(TxOf(orch.rdata), Range(ids)), outcome)

updateSettings(patch, outcome) ==
  /\ ops < MaxOps
  /\ ops' = ops + 1
  /\ IF orch.rdata = NullEnv THEN MutatorReturns
     ELSE LET newData == [orch.rdata EXCEPT !.settings = Spread(@, patch)] IN
          SaveData(newData, IsImmediate(orch.provider), outcome, Mutated(hist, newData))
  /\ UNCHANGED <<cfg, now, tab, cr, mig, sw, ld, pcall>>

updatePayPeriodConfig(patch, outcome) ==
  /\ ops < MaxOps
  /\ ops' = ops + 1
  /\ IF orch.rdata = NullEnv THEN MutatorReturns
     ELSE LET newData == [orch.rdata EXCEPT !.ppc = Spread(@, patch)] IN
          SaveData(newData, IsImmediate(orch.provider), outcome, Mutated(hist, newData))
  /\ UNCHANGED <<cfg, now, tab, cr, mig, sw, ld, pcall>>

\* Calls of forceSync() that may follow MaxOps calls.
MaxSyncs == 1

\* forceSync(): saveData(data, true) with the rendered data. The bookkeeping
\* notes in `forced` the envelope passed when the provider's status was error,
\* until the next mutator call.
forceSync(outcome) ==
  /\ orch.provider # NoProvider
  /\ orch.rdata # NullEnv
  /\ ops < MaxOps + MaxSyncs
  /\ ops' = ops + 1
  /\ SaveData(orch.rdata, TRUE, outcome,
              [hist EXCEPT !.clean = FALSE,
                           !.forced = IF (IF orch.provider = LocalId THEN lsp.status
                                          ELSE gdp.status) = "error"
                                      THEN orch.rdata ELSE NullEnv])
  /\ UNCHANGED <<cfg, now, tab, cr, mig, sw, ld, pcall>>

\* The files a user may pick for import: an exported envelope, an object of the
\* format before envelopes, and a file that is not JSON.
BadFile == [garbage |-> TRUE]
ImportFiles ==
  {createBudgetData(<<"b">>, 2, Absent), RawObject(<<"b", "a">>, Absent, Absent), BadFile}

ErrImport == "Failed to parse import file"

\* importData(file): provider.importFromFile parses and migrates the file, the
\* envelope is passed to provider.save() directly, and setData follows when save
\* answered true. The pending reference and the debounce timer are not touched.
importData(file, outcome) ==
  /\ orch.provider # NoProvider /\ pcall = NoCall
  /\ ops < MaxOps
  /\ ops' = ops + 1
  /\ hist' = [hist EXCEPT !.clean = FALSE]
  /\ IF file = BadFile
     THEN /\ orch' = [orch EXCEPT !.error = ErrImport]
          /\ last' = [last EXCEPT !.imp = [env |-> NullEnv, ret |-> FALSE, at |-> ops + 1]]
          /\ UNCHANGED <<ls, saltGen, drive, lsp, gdp, pcall>>
     ELSE LET imported == validateAndMigrateBudgetData(file)
              r == SaveBegin(orch.provider, World, imported, outcome) IN
          /\ SetWorld(r.w)
          /\ IF r.done
             THEN /\ orch' = IF r.ret THEN [orch EXCEPT !.data = imported] ELSE orch
                  /\ last' = [last EXCEPT !.imp = [env |-> imported, ret |-> r.ret,
                                                  at |-> ops + 1]]
                  /\ pcall' = pcall
             ELSE /\ pcall' = [kind |-> "import", prov |-> orch.provider, call |-> r.call,
                               env |-> imported]
                  /\ UNCHANGED <<orch, last>>
  /\ UNCHANGED <<cfg, now, tab, cr, mig, pendingData, saveTimeout, inflight, sw, ld>>

\* The provider.save() awaited by importData is answered: its continuation.
ImportCompletes(outcome) ==
  /\ pcall.kind = "import"
  /\ LET r == SaveEnd(World, pcall.call, outcome) IN
       /\ SetWorld(r.w)
       /\ orch' = IF r.ret THEN [orch EXCEPT !.data = pcall.env] ELSE orch
       /\ last' = [last EXCEPT !.imp = [env |-> pcall.env, ret |-> r.ret, at |-> ops]]
  /\ pcall' = NoCall
  /\ UNCHANGED <<cfg, now, tab, cr, mig, pendingData, saveTimeout, inflight, sw, ld, hist, ops>>

\* DEBOUNCE_MS pass without a mutator call: the window closes, and the timer
\* saveData set, if any, fires and runs its doSave.
WindowElapses(outcome) ==
  /\ hist.open \/ saveTimeout # NoProvider
  /\ IF saveTimeout # NoProvider
     THEN DoSave(saveTimeout, pendingData, outcome, [hist EXCEPT !.open = FALSE])
     ELSE /\ hist' = [hist EXCEPT !.open = FALSE]
          /\ UNCHANGED <<ls, saltGen, drive, lsp, gdp, inflight, last, pendingData>>
  /\ saveTimeout' = NoProvider
  /\ UNCHANGED <<cfg, now, tab, cr, mig, orch, sw, ld, pcall, ops>>

RemoveAt(s, i) == SubSeq(s, 1, i - 1) \o SubSeq(s, i + 1, Len(s))

\* A provider.save() awaited by a doSave is answered: doSave's continuation.
SaveCompletes(i, outcome) ==
  /\ i \in 1..Len(inflight)
  /\ LET r == SaveEnd(World, inflight[i], outcome) IN
       /\ SetWorld(r.w)
       /\ pendingData' = IF r.ret THEN NullEnv ELSE pendingData
       /\ last' = Outcome("save", inflight[i].prov, r.ret, FALSE, inflight[i].env, r.w)
  /\ inflight' = RemoveAt(inflight, i)
  /\ UNCHANGED <<cfg, now, tab, cr, mig, orch, saveTimeout, sw, ld, pcall, hist, ops>>

\* React re-renders: the callbacks now close over the current data.
Render ==
  /\ orch.rdata # orch.data
  /\ orch' = [orch EXCEPT !.rdata = orch.data]
  /\ UNCHANGED <<ls, saltGen, drive, cfg, now, tab, cr, mig, lsp, gdp, pendingData, saveTimeout,
                 inflight, sw, ld, pcall, last, hist, ops>>

\* ----------------------------------------------------------- initial states

NoStart ==
  [localTx |-> <<>>, driveTx |-> <<>>, files |-> <<>>, legacy |-> FALSE,
   active |-> NoProvider, token |-> FALSE]
NoSwitch == [pc |-> "idle", via |-> "none", trail |-> <<>>, start |-> NoStart]
\* The outcome of the enableEncryption / disableEncryption call made last: its
\* argument, whether it is still awaiting its save(), what it returned or whether
\* it threw; tick flips when a call ends.
NoEnc ==
  [op |-> "none", pass |-> NoPass, pc |-> "done", ret |-> FALSE, threw |-> FALSE, tick |-> 0]

\* The importData call that ended last: the envelope it imported, what it
\* returned, and how many calls had been made when it ended.
NoImp == [env |-> NullEnv, ret |-> FALSE, at |-> 0]

NoLast ==
  [op |-> "none", prov |-> NoProvider, ret |-> FALSE, threw |-> FALSE, env |-> NullEnv,
   err |-> NoErr, before |-> NoErr, recent |-> <<>>, tick |-> 0, enc |-> NoEnc,
   imp |-> NoImp, heard |-> <<>>]

FreshLocalStore ==
  [data |-> NoRecord, flag |-> FALSE, salt |-> NoSalt, pref |-> LocalId, legacy |-> FALSE,
   token |-> FALSE, tokenTime |-> 0, remember |-> FALSE]

\* The provider as its constructor leaves it; listeners is the Set _listeners in
\* insertion order, the order in which a Set is iterated.
FreshLsp ==
  [passphrase |-> NoPass, encryptionEnabled |-> FALSE, status |-> "idle", error |-> NoErr,
   listeners |-> <<>>]
FreshGdp ==
  [accessToken |-> FALSE, issuedAt |-> 0, fileId |-> NoFile, user |-> FALSE,
   status |-> "idle", error |-> NoErr]

\* The key of localStorage that holds the data.
STORAGE_KEY == "peasant-budget-data"

\* The other tab of the same origin: it has not written, no storage event awaits
\* this tab (key is the key of the event that awaits it), and its provider object
\* is as constructed, with no save suspended.
NoTab ==
  [event |-> FALSE, key |-> STORAGE_KEY, wrote |-> FALSE, at |-> 0, writes |-> 0,
   lsp |-> FreshLsp, pcall |-> NoCall]

\* authenticate()'s callback at time t: the provider holds the token and the
\* user's identity (issuedAt is the token's own date, kept to tell its age); the
\* token and the time are stored.
TokenHeld(g, t) == [g EXCEPT !.accessToken = TRUE, !.issuedAt = t, !.user = TRUE]
TokenStored(store, t) == [store EXCEPT !.token = TRUE, !.tokenTime = t]

Loaded(p, e) ==
  [providerId |-> p, provider |-> p, data |-> e, rdata |-> e, error |-> NoErr, isLoading |-> FALSE]

\* The orchestrator after startup has loaded: on the local provider, plain or
\* with encryption enabled and unlocked, or on the remote provider, with or
\* without a token; nothing stored yet, so the envelope is the empty one.
InitSave ==
  /\ \E mode \in {"local", "localEnc", "drive", "driveNoAuth"} :
       /\ ls = IF mode = "localEnc"
               THEN [FreshLocalStore EXCEPT !.flag = TRUE, !.salt = 1]
               ELSE IF mode = "local" THEN FreshLocalStore
               ELSE IF mode = "drive"
               THEN TokenStored([FreshLocalStore EXCEPT !.pref = DriveId], 0)
               ELSE [FreshLocalStore EXCEPT !.pref = DriveId]
       /\ saltGen = IF mode = "localEnc" THEN 1 ELSE 0
       /\ lsp = IF mode = "localEnc"
                THEN [FreshLsp EXCEPT !.passphrase = "Str0ngPass1", !.encryptionEnabled = TRUE,
                                      !.status = "synced"]
                ELSE [FreshLsp EXCEPT !.status = IF mode = "local" THEN "synced" ELSE "idle"]
       /\ gdp = IF mode = "drive"
                THEN [TokenHeld(FreshGdp, 0) EXCEPT !.status = "synced"]
                ELSE IF mode = "driveNoAuth"
                THEN [FreshGdp EXCEPT !.status = "error", !.error = ErrNotAuth]
                ELSE FreshGdp
       /\ orch = Loaded(IF mode \in {"local", "localEnc"} THEN LocalId ELSE DriveId, EmptyData)
  /\ drive = <<>>
  /\ cfg = [clientId |-> TRUE]
  /\ now = 0
  /\ tab = NoTab
  /\ mig = NoMig
  /\ cr = NoCrypt
  /\ pendingData = NullEnv
  /\ saveTimeout = NoProvider
  /\ inflight = <<>>
  /\ sw = NoSwitch
  /\ ld = <<>>
  /\ pcall = NoCall
  /\ last = NoLast
  /\ hist = NoHist
  /\ ops = 0

NextSave ==
  \/ \E t \in Ids, o \in Outcomes : addTransaction(t, o)
  \/ \E l \in BulkLists, o \in Outcomes : addTransactions(l, o)
  \/ \E t \in Ids, o \in Outcomes : deleteTransaction(t, o)
  \/ \E l \in IdLists, o \in Outcomes : deleteTransactions(l, o)
  \/ \E v \in Patches, o \in Outcomes : updateSettings(v, o)
  \/ \E v \in Patches, o \in Outcomes : updatePayPeriodConfig(v, o)
  \/ \E o \in Outcomes : forceSync(o)
  \/ \E f \in ImportFiles, o \in Outcomes : importData(f, o)
  \/ \E o \in Outcomes : ImportCompletes(o)
  \/ \E o \in Outcomes : WindowElapses(o)
  \/ \E i \in 1..MaxInflight, o \in Outcomes : SaveCompletes(i, o)
  \/ Render

SpecSave == InitSave /\ [][NextSave]_vars

\* C1. Debounce coalescing: on the local provider, a burst of N >= 1 mutator calls
\* that began with no save in flight results, once the debounce window has closed,
\* in exactly one provider.save() call, and that call was passed the in-memory
\* envelope as the N-th call left it; while the window is open none is made.
DebounceCoalescing ==
  (hist.clean /\ hist.muts >= 1) =>
     IF hist.open THEN hist.saves = 0
     ELSE hist.saves = 1 /\ hist.savedEnv = hist.lastEnv

\* C1 witness: a burst of two mutator calls has been written by one save.
DebounceCoalescingWitness ==
  /\ hist.clean /\ ~hist.open /\ hist.muts = 2
  /\ hist.saves = 1 /\ hist.savedEnv = hist.lastEnv
  /\ ls.data = Plain(hist.lastEnv)

\* C2. The orchestrator never has two provider.save() calls in flight for the
\* same provider.
NoOverlappingSave ==
  \A i, j \in 1..Len(inflight) : i # j => inflight[i].prov # inflight[j].prov

\* C18. After any sequence of addTransaction and addTransactions calls the
\* in-memory transaction list holds at most one entry per id.
UniqueTransactionIds ==
  orch.data # NullEnv =>
    \A i, j \in 1..Len(orch.data.tx) : i # j => orch.data.tx[i] # orch.data.tx[j]

\* The store of provider p holds envelope e.
Persisted(p, e) ==
  IF p = LocalId THEN ls.data.kind \in {"plain", "cipher"} /\ ls.data.env = e
  ELSE \E i \in 1..Len(drive) : drive[i] = e

\* C19. Once importData has succeeded, and with no mutator or forceSync called
\* after it, the in-memory envelope and the envelope the active provider has
\* persisted are the imported one, also after the writes that were scheduled
\* before the import have run.
ImportReplacesData ==
  (last.imp.ret /\ ops = last.imp.at /\ pcall = NoCall) =>
     /\ orch.data = last.imp.env
     /\ Persisted(orch.provider, last.imp.env)

\* C7. A provider.save() that fails leaves the in-memory envelope as it is, and
\* the unsaved envelope stays recorded as pending.
FailedSaveKeepsPending ==
  [][(last'.tick # last.tick /\ last'.op = "save" /\ ~last'.ret) =>
       /\ orch'.data # NullEnv
       /\ (Len(inflight') < Len(inflight) => orch'.data = orch.data)
       /\ (~Persisted(last.prov, orch.data)' => pendingData' = orch'.data)]_vars

\* The orchestrator where every provider.save() succeeds: mutator calls, the
\* debounce timer and the answers to the saves in flight, in any order. A timer
\* that is armed fires and a save that is awaited is answered.
NextSaveOk ==
  \/ \E t \in Ids : addTransaction(t, "ok")
  \/ \E l \in BulkLists : addTransactions(l, "ok")
  \/ \E t \in Ids : deleteTransaction(t, "ok")
  \/ \E l \in IdLists : deleteTransactions(l, "ok")
  \/ \E v \in Patches : updateSettings(v, "ok")
  \/ \E v \in Patches : updatePayPeriodConfig(v, "ok")
  \/ WindowElapses("ok")
  \/ \E i \in 1..MaxInflight : SaveCompletes(i, "ok")
  \/ Render

SpecSaveOk ==
  /\ InitSave /\ [][NextSaveOk]_vars
  /\ WF_vars(WindowElapses("ok"))
  /\ WF_vars(\E i \in 1..MaxInflight : SaveCompletes(i, "ok"))
  /\ WF_vars(Render)

\* The envelope a load() of provider p would read back is e.
ReadsBack(p, e) ==
  IF p = LocalId THEN ls.data.kind \in {"plain", "cipher"} /\ ls.data.env = e
  ELSE Files(drive) # {} /\ drive[FirstFile(drive)] = e

\* C25: with a provider whose saves succeed, once the mutator calls have
\* stopped the envelope persisted by the active provider eventually is, and
\* stays, the in-memory envelope.
MutationsEventuallyPersisted ==
  <>[]((ops > 0 /\ (orch.provider = DriveId => gdp.accessToken)) =>
          ReadsBack(orch.provider, orch.data))

\* This step is a call of one of the six mutators.
MutatorCalled ==
  /\ ops' = ops + 1 /\ hist'.open /\ hist'.lastEnv = orch'.data
  /\ hist'.muts = IF hist.open THEN hist.muts + 1 ELSE 1

\* Envelope e2 is what one mutator call makes of envelope e.
AppliedTo(e, e2) ==
  \/ \E t \in Ids : e2 = [e EXCEPT !.tx = <<t>> \o @]
  \/ \E l \in BulkLists : e2 = [e EXCEPT !.tx = l \o @]
  \/ \E t \in Ids : e2 = [e EXCEPT !.tx = Filter(@, {t})]
  \/ \E l \in IdLists : e2 = [e EXCEPT !.tx = Filter(@, Range(l))]
  \/ \E v \in Patches : e2 = [e EXCEPT !.settings = Spread(@, v)]
  \/ \E v \in Patches : e2 = [e EXCEPT !.ppc = Spread(@, v)]

\* C30: every mutator call is applied to the in-memory envelope as the call
\* before it left it, rendered since or not, so that the in-memory envelope after
\* a sequence of calls is the result of applying each call in order.
MutationsInCallOrder ==
  [][MutatorCalled => AppliedTo(orch.data, orch'.data)]_vars

\* The provider.save() calls made in the current burst before this step.
SavesSoFar == IF hist.open THEN hist.saves ELSE 0

\* C31: a mutator call on the provider that requires authentication calls
\* provider.save() in the same step, passing the envelope the call produced; on
\* the local provider the call makes no provider.save(), leaves the store as it
\* is and arms the debounce timer, whose doSave runs only once the window has
\* elapsed.
CloudSavesAtOnce ==
  [][MutatorCalled =>
       IF requiresAuth(orch.provider)
       THEN /\ hist'.saves = SavesSoFar + 1
            /\ hist'.savedEnv = orch'.data
            /\ saveTimeout' = NoProvider
       ELSE /\ hist'.saves = SavesSoFar
            /\ ls' = ls /\ inflight' = inflight
            /\ saveTimeout' = orch.provider /\ pendingData' = orch'.data]_vars

\* Two mutator calls on the remote provider have each started a save, the
\* second while the first was still awaited.
CloudSavesAtOnceWitness ==
  /\ orch.provider = DriveId /\ gdp.accessToken
  /\ hist.open /\ hist.muts = 2 /\ hist.saves = 2
  /\ hist.savedEnv = orch.data /\ Len(inflight) = 2
  /\ inflight[2].env = orch.data /\ inflight[1].env # orch.data

\* getSyncStatus().status of provider p.
StatusOf(p) == IF p = LocalId THEN lsp.status ELSE gdp.status

\* This step is a call of forceSync(): a provider.save() more, no mutation more.
ForceSyncCalled ==
  /\ ops' = ops + 1 /\ hist'.saves = hist.saves + 1
  /\ hist'.open = hist.open /\ hist'.muts = hist.muts

\* The save() that the forceSync() called last with the status at error is
\* waiting for, holding the envelope it passed, is answered true.
ForcedSaveAccepted ==
  /\ hist.forced # NullEnv /\ ops' = ops
  /\ last'.tick # last.tick /\ last'.op = "save" /\ last'.ret /\ last'.env = hist.forced
  /\ \E i \in 1..Len(inflight) :
       inflight[i].env = hist.forced /\ inflight' = RemoveAt(inflight, i)

\* C32: forceSync() called with the status at error passes the in-memory
\* envelope to provider.save(); when that save is answered true, in the same
\* step or later, the provider reads back that envelope and its status is
\* synced.
ForceSyncRecovers ==
  [][/\ (ForceSyncCalled /\ StatusOf(orch.provider) = "error") =>
          /\ hist'.savedEnv = orch'.data
          /\ (last'.tick # last.tick /\ last'.ret) =>
                (ReadsBack(orch.provider, orch.data) /\ StatusOf(orch.provider) = "synced")'
          /\ (last'.tick = last.tick /\ inflight' # inflight) =>
                inflight'[Len(inflight')].env = orch'.data
     /\ ForcedSaveAccepted =>
          (ReadsBack(orch.provider, hist.forced) /\ StatusOf(orch.provider) = "synced")']_vars

\* On the local provider: a mutation's save failed on the quota and left the
\* status at error; the forceSync() that followed has stored the in-memory
\* envelope, status synced.
ForceSyncRecoversWitness ==
  /\ orch.provider = LocalId /\ ops = 2 /\ hist.muts = 1 /\ hist.saves = 2
  /\ last.op = "save" /\ last.ret /\ last.before = ErrQuota
  /\ lsp.status = "synced" /\ ReadsBack(LocalId, orch.data)
  /\ Len(orch.data.tx) > 0

\* ---------------------------------------------------------- provider switch

\* The transactions the store of provider p holds.
StoredTx(p, w) ==
  IF p = LocalId
  THEN IF w.ls.data.kind \in {"plain", "cipher"} THEN w.ls.data.env.tx ELSE <<>>
  ELSE IF Files(w.drive) # {} THEN w.drive[FirstFile(w.drive)].tx ELSE <<>>

\* isAvailable(): the local store is there; the remote provider needs its client id.
isAvailable(p) == p = LocalId \/ cfg.clientId

\* Session lengths of isAuthenticated(), in milliseconds: 60 sec, or 55 min with
\* google_remember_session set.
SHORT_SESSION == 60 * 1000
LONG_SESSION == 55 * 60 * 1000
maxAge(store) == IF store.remember THEN LONG_SESSION ELSE SHORT_SESSION

\* isAuthenticated() at time t: the world after it and its answer. The local
\* provider always is. The remote one is when it holds a token; when it holds
\* none it restores the stored token if that is younger than maxAge, and removes
\* the stored token and its time otherwise.
isAuthenticated(p, w, t) ==
  IF p = LocalId \/ w.gdp.accessToken THEN [w |-> w, ret |-> TRUE]
  ELSE IF ~w.ls.token THEN [w |-> w, ret |-> FALSE]
  ELSE IF t - w.ls.tokenTime < maxAge(w.ls)
  THEN [w |-> [w EXCEPT !.gdp.accessToken = TRUE, !.gdp.issuedAt = w.ls.tokenTime],
        ret |-> TRUE]
  ELSE [w |-> [w EXCEPT !.ls.token = FALSE, !.ls.tokenTime = 0], ret |-> FALSE]

\* A switchProvider that takes any answer of load() for an empty destination.
CloudTakenForEmpty(cloudData) == FALSE

\* switchProvider: cloudData && cloudData.data?.transactions?.length > 0
CloudHasData(cloudData) == cloudData # NullEnv /\ Len(cloudData.tx) > 0

\* switchProvider: data && data.data?.transactions?.length > 0
SourceHasData(data) == data # NullEnv /\ Len(data.tx) > 0

\* The record of a switchProvider call: where it is, its argument, the data it
\* closes over, what the destination held when it started, what load() gave it,
\* whether it called save() on the destination, what it returned, and who
\* called it (a component, or the orchestrator's signOut).
Switching(via, dest, data, destTx) ==
  [pc |-> "start", via |-> via, dest |-> dest, data |-> data, destTx |-> destTx,
   loaded |-> NullEnv, saved |-> FALSE, call |-> NoCall, ret |-> FALSE,
   trail |-> sw.trail, start |-> sw.start]

\* switchProvider returns: false, or true after recording the preference and
\* setProviderId. A changed providerId re-runs the loadData effect, at first with
\* the provider instance of the previous render. w and o are the world and the
\* orchestrator state the call leaves behind.
SwitchEnds(s, ok, w, o) ==
  /\ sw' = [s EXCEPT !.pc = "done", !.ret = ok,
                     !.trail = IF ok THEN Append(@, s.dest) ELSE @]
  /\ saltGen' = w.saltGen
  /\ drive' = w.drive
  /\ lsp' = w.lsp
  /\ gdp' = w.gdp
  /\ IF ok
     THEN /\ ls' = [w.ls EXCEPT !.pref = s.dest]
          /\ orch' = [o EXCEPT !.providerId = s.dest]
          /\ ld' = IF orch.providerId # s.dest /\ orch.provider # NoProvider
                   THEN Append(ld, [prov |-> orch.provider, pid |-> s.dest])
                   ELSE ld
     ELSE /\ ls' = w.ls
          /\ orch' = o
          /\ ld' = ld

\* switchProvider, destination local: if (data) await newProvider.save(data),
\* whatever save() answers.
SwitchToLocal(s, w, outcome) ==
  IF s.data = NullEnv THEN SwitchEnds(s, TRUE, w, orch)
  ELSE LET r == LocalSaveBegin(w, s.data, outcome) IN
       IF r.done THEN SwitchEnds([s EXCEPT !.saved = TRUE], TRUE, r.w, orch)
       ELSE /\ sw' = [s EXCEPT !.pc = "saving", !.saved = TRUE, !.call = r.call]
            /\ SetWorld(r.w)
            /\ UNCHANGED <<orch, ld>>

\* An id no provider was registered under.
UnregisteredId == "dropbox"

\* A registry that has an instance for every id.
getProviderAlways(id) == TRUE

\* getProvider(id): whether the registry has an instance for id.
getProvider(id) == id \in ProviderIds

\* switchProvider from its start to its first suspension; data is the envelope
\* the callback closes over, w the world it starts in.
SwitchBegin(via, dest, data, w, outcome) ==
  LET s == Switching(via, dest, data, IF getProvider(dest) THEN StoredTx(dest, w) ELSE <<>>) IN
  IF ~getProvider(dest) THEN SwitchEnds(s, FALSE, w, orch)
  ELSE IF ~isAvailable(dest) THEN SwitchEnds(s, FALSE, w, orch)
  ELSE IF requiresAuth(dest)
  THEN LET a == isAuthenticated(dest, w, now) IN
       /\ sw' = [s EXCEPT !.pc = IF a.ret THEN "loading" ELSE "auth"]
       /\ SetWorld([a.w EXCEPT !.gdp = UpdateSyncStatus(a.w.gdp, "syncing", NoErr)])
       /\ UNCHANGED <<orch, ld>>
  ELSE SwitchToLocal(s, w, outcome)

switchProvider(dest, outcome) ==
  /\ sw.pc \in {"idle", "done"}
  /\ orch.provider = orch.providerId
  /\ ops < MaxSwitches
  /\ ops' = ops + 1
  /\ SwitchBegin("switchProvider", dest, orch.rdata, World, outcome)
  /\ UNCHANGED <<cfg, now, tab, cr, mig, pendingData, saveTimeout, inflight, pcall, last, hist>>

\* A signOut() that gives up when the revocation request fails.
DriveSignOutIfRevoked(w, revoked) ==
  IF revoked # "ok" THEN w
  ELSE [w EXCEPT !.gdp = [UpdateSyncStatus(w.gdp, "idle", NoErr)
                            EXCEPT !.accessToken = FALSE, !.issuedAt = 0, !.fileId = NoFile,
                                   !.user = FALSE],
                 !.ls.token = FALSE, !.ls.tokenTime = 0]

\* GoogleDriveProvider.signOut() once the revocation request, if one was made,
\* has been answered or has failed: token, file id and user are dropped, the
\* stored token and its time are removed, status idle.
DriveSignOut(w, revoked) ==
  [w EXCEPT !.gdp = [UpdateSyncStatus(w.gdp, "idle", NoErr)
                       EXCEPT !.accessToken = FALSE, !.issuedAt = 0, !.fileId = NoFile,
                              !.user = FALSE],
            !.ls.token = FALSE, !.ls.tokenTime = 0]

\* signOut(): provider.signOut(), then switchProvider('local').
signOut(revoked, outcome) ==
  /\ orch.provider # NoProvider
  /\ orch.provider = orch.providerId
  /\ sw.pc \in {"idle", "done"}
  /\ ops < MaxSwitches
  /\ ops' = ops + 1
  /\ SwitchBegin("signOut", LocalId, orch.rdata,
                 IF orch.provider = DriveId THEN DriveSignOut(World, revoked) ELSE World,
                 outcome)
  /\ UNCHANGED <<cfg, now, tab, cr, mig, pendingData, saveTimeout, inflight, pcall, last, hist>>

\* GoogleDriveProvider.authenticate(), answered by the consent flow at time t: a
\* token is held and stored and the status is synced, or the status is error with
\* the response's error.
ErrDenied == "access_denied"

DriveAuthenticate(w, granted, t) ==
  IF granted
  THEN [w EXCEPT !.gdp = TokenHeld(UpdateSyncStatus(w.gdp, "synced", NoErr), t),
                 !.ls = TokenStored(w.ls, t)]
  ELSE [w EXCEPT !.gdp = UpdateSyncStatus(w.gdp, "error", ErrDenied)]

\* switchProvider's authenticate() is answered.
SwitchAuthenticated(granted) ==
  /\ sw.pc = "auth"
  /\ IF granted
     THEN /\ sw' = [sw EXCEPT !.pc = "loading"]
          /\ SetWorld(DriveAuthenticate(World, granted, now))
          /\ UNCHANGED <<orch, ld>>
     ELSE SwitchEnds(sw, FALSE, DriveAuthenticate(World, granted, now), orch)
  /\ UNCHANGED <<cfg, now, tab, cr, mig, pendingData, saveTimeout, inflight, pcall, last, hist, ops>>

\* The destination's load() is answered: use the cloud data if it has
\* transactions, else migrate the source data if it has some.
SwitchLoaded(findOk, readOk) ==
  /\ sw.pc = "loading"
  /\ findOk = "fail" => readOk = "ok"
  /\ LET r == DriveLoad(World, findOk, readOk)
         s == [sw EXCEPT !.loaded = r.ret]
     IN
     IF CloudHasData(r.ret)
     THEN SwitchEnds(s, TRUE, r.w, [orch EXCEPT !.data = r.ret])
     ELSE IF SourceHasData(sw.data)
     THEN LET b == DriveSaveBegin(r.w, sw.data) IN
          IF b.done THEN SwitchEnds([s EXCEPT !.saved = TRUE], FALSE, b.w, orch)
          ELSE /\ sw' = [s EXCEPT !.pc = "saving", !.saved = TRUE, !.call = b.call]
               /\ SetWorld(b.w)
               /\ UNCHANGED <<orch, ld>>
     ELSE SwitchEnds(s, TRUE, r.w, orch)
  /\ UNCHANGED <<cfg, now, tab, cr, mig, pendingData, saveTimeout, inflight, pcall, last, hist, ops>>

\* The destination's save() is answered: a remote destination that failed to
\* save ends the switch with false.
SwitchSaved(outcome) ==
  /\ sw.pc = "saving"
  /\ LET r == SaveEnd(World, sw.call, outcome) IN
       SwitchEnds([sw EXCEPT !.call = NoCall], requiresAuth(sw.dest) => r.ret, r.w, orch)
  /\ UNCHANGED <<cfg, now, tab, cr, mig, pendingData, saveTimeout, inflight, pcall, last, hist, ops>>

\* The initProvider effect after providerId changed: setProvider(instance),
\* which re-runs the loadData effect with the new instance, and a call of
\* isAuthenticated() on a provider that requires authentication.
initProvider ==
  /\ orch.provider # orch.providerId
  /\ orch' = [orch EXCEPT !.provider = orch.providerId]
  /\ ld' = Append(ld, [prov |-> orch.providerId, pid |-> orch.providerId])
  /\ SetWorld(isAuthenticated(orch.providerId, World, now).w)
  /\ UNCHANGED <<cfg, now, tab, cr, mig, pendingData, saveTimeout, inflight, sw, pcall, last, hist, ops>>

\* The legacy keys hold this list of transactions.
LegacyTx == <<"b">>

\* migrateLegacyData(): with legacy keys present, save them as an envelope.
migrateLegacyData(w, outcome) ==
  IF ~w.ls.legacy THEN w
  ELSE LocalSaveBegin(w, createBudgetData(LegacyTx, Absent, Absent), outcome).w

\* One run of the loadData effect, from provider.load() being called to setData.
loadData(i, outcome, findOk, readOk) ==
  /\ i \in 1..Len(ld)
  /\ IF ld[i].prov = LocalId THEN findOk = "ok" /\ readOk = "ok"
     ELSE outcome = "ok" /\ (findOk = "fail" => readOk = "ok")
  /\ LET run == ld[i]
         w1 == IF run.pid = LocalId /\ run.prov = LocalId
               THEN migrateLegacyData(World, outcome) ELSE World
         r == IF run.prov = LocalId THEN LocalLoad(w1) ELSE DriveLoad(w1, findOk, readOk)
     IN
     /\ SetWorld(r.w)
     /\ orch' = IF r.threw THEN [orch EXCEPT !.error = r.w.lsp.error, !.isLoading = FALSE]
                ELSE [orch EXCEPT !.data = IF r.ret # NullEnv THEN r.ret ELSE EmptyData,
                                  !.error = NoErr, !.isLoading = FALSE]
  /\ ld' = RemoveAt(ld, i)
  /\ UNCHANGED <<cfg, now, tab, cr, mig, pendingData, saveTimeout, inflight, sw, pcall, last, hist, ops>>

\* new LocalStorageProvider() and new GoogleDriveProvider() on a page load: the
\* encryption flag is read back, no passphrase is held, no token and no file id.
Constructed(w) ==
  [w EXCEPT !.lsp = [FreshLsp EXCEPT !.encryptionEnabled = isEncryptionEnabled(w)],
            !.gdp = FreshGdp]

\* The instants at which the clock is read: the start, and either side of the
\* end of a short and of a long session that began at the start.
Instants == {0, SHORT_SESSION - 1, SHORT_SESSION, LONG_SESSION - 1, LONG_SESSION}

\* The page is loaded again at time t: the provider objects are constructed
\* anew and the orchestrator starts from its initial state, providerId read from
\* the stored preference; the initProvider effect and then the loadData effect
\* follow. The clock matters only to a stored token.
Startup(t) ==
  /\ sw.pc \in {"idle", "done"}
  /\ ops < MaxSwitches
  /\ ops' = ops + 1
  /\ t >= now /\ (t # now => ls.token)
  /\ now' = t
  /\ SetWorld(Constructed(World))
  /\ orch' = [providerId |-> ls.pref, provider |-> NoProvider, data |-> NullEnv,
              rdata |-> NullEnv, error |-> NoErr, isLoading |-> TRUE]
  /\ ld' = <<>>
  /\ UNCHANGED <<cfg, tab, cr, mig, pendingData, saveTimeout, inflight, sw, pcall, last, hist>>

\* The orchestrator after startup has loaded, on either provider. The local store
\* is empty or holds two transactions; the remote folder is empty or holds a file
\* with no or with one transaction; the legacy keys may still be there.
SomeEnvs == {createBudgetData(<<"b", "a">>, 1, Absent)}
RemoteEnvs == {createBudgetData(<<>>, Absent, Absent), createBudgetData(<<"b">>, Absent, 1)}

InitSwitch ==
  /\ \E active \in ProviderIds, rec \in {NoRecord} \cup {Plain(e) : e \in SomeEnvs},
        files \in {<<>>} \cup {<<e>> : e \in RemoteEnvs}, token \in BOOLEAN,
        legacy \in BOOLEAN, clientId \in BOOLEAN :
       /\ active = DriveId => token /\ clientId
       /\ ~clientId => ~token /\ files = <<>> /\ ~legacy
       /\ legacy => rec # NoRecord
       /\ ls = [FreshLocalStore EXCEPT !.data = rec, !.pref = active, !.legacy = legacy,
                                       !.token = token]
       /\ drive = files
       /\ cfg = [clientId |-> clientId]
       /\ now = 0
       /\ tab = NoTab
       /\ mig = NoMig
       /\ cr = NoCrypt
       /\ lsp = [FreshLsp EXCEPT !.status = IF active = LocalId THEN "synced" ELSE "idle"]
       /\ gdp = IF active = DriveId
                THEN [TokenHeld(FreshGdp, 0) EXCEPT !.status = "synced",
                                      !.fileId = IF files = <<>> THEN NoFile ELSE 1]
                ELSE IF token THEN TokenHeld(FreshGdp, 0) ELSE FreshGdp
       /\ orch = Loaded(active,
                        IF active = LocalId
                        THEN IF rec = NoRecord THEN EmptyData ELSE rec.env
                        ELSE IF files = <<>> THEN EmptyData ELSE files[1])
       /\ sw = [NoSwitch EXCEPT !.start =
                  [localTx |-> IF rec = NoRecord THEN <<>> ELSE rec.env.tx,
                   driveTx |-> IF files = <<>> THEN <<>> ELSE files[1].tx,
                   files |-> files, legacy |-> legacy,
                   active |-> active, token |-> token]]
  /\ saltGen = 0
  /\ pendingData = NullEnv
  /\ saveTimeout = NoProvider
  /\ inflight = <<>>
  /\ ld = <<>>
  /\ pcall = NoCall
  /\ last = NoLast
  /\ hist = NoHist
  /\ ops = 0

NextSwitch ==
  \/ \E dest \in ProviderIds \cup {UnregisteredId}, o \in Outcomes : switchProvider(dest, o)
  \/ \E rv \in Outcomes, o \in Outcomes : signOut(rv, o)
  \/ \E granted \in BOOLEAN : SwitchAuthenticated(granted)
  \/ \E f \in Outcomes, r \in Outcomes : SwitchLoaded(f, r)
  \/ \E o \in Outcomes : SwitchSaved(o)
  \/ initProvider
  \/ \E t \in Instants : Startup(t)
  \/ \E i \in 1..(2 * MaxSwitches), o \in Outcomes, f \in Outcomes, r \in Outcomes :
       loadData(i, o, f, r)
  \/ Render

SpecSwitch == InitSwitch /\ [][NextSwitch]_vars

\* The switchProvider call takes its last step.
SwitchFinishes == sw.pc # "done" /\ sw'.pc = "done"

\* C3. switchProvider to a destination that requires authentication and whose
\* load() returns an envelope with transactions makes that envelope the in-memory
\* envelope, calls no save() on the destination and leaves the remote store as it
\* is, whatever the source holds; it returns true.
SwitchPrefersCloudData ==
  [][(sw.pc = "loading" /\ sw'.pc # "loading" /\ sw'.loaded # NullEnv
        /\ Len(sw'.loaded.tx) > 0) =>
       /\ sw'.pc = "done" /\ sw'.ret /\ ~sw'.saved
       /\ orch'.data = sw'.loaded
       /\ drive' = drive
       /\ StoredTx(DriveId, World)' = sw'.loaded.tx]_vars

\* C3 witness: a switch found transactions on the remote side while the source
\* held different ones, and ended without saving.
SwitchPrefersCloudDataWitness ==
  /\ sw.pc = "done" /\ sw.ret /\ sw.dest = DriveId /\ ~sw.saved
  /\ sw.loaded # NullEnv /\ sw.data # NullEnv
  /\ Len(sw.loaded.tx) > 0 /\ Len(sw.data.tx) > 0 /\ sw.data.tx # sw.loaded.tx
  /\ StoredTx(DriveId, World) = sw.loaded.tx

\* C4. switchProvider(dest) that returns true, to a destination holding no
\* transactions while the source envelope holds N > 0, ends with the destination
\* holding exactly those N transactions and with dest the active provider id and
\* the persisted preference.
SwitchMigratesToEmptyDest ==
  [][(SwitchFinishes /\ sw'.ret /\ sw'.destTx = <<>> /\ SourceHasData(sw'.data)) =>
       /\ StoredTx(sw.dest, World)' = sw'.data.tx
       /\ orch'.providerId = sw'.dest
       /\ ls'.pref = sw'.dest]_vars

\* C5. switchProvider to the local provider while the local store holds M > 0
\* transactions leaves those M transactions in the local store.
SwitchKeepsLocalData ==
  [][(SwitchFinishes /\ sw'.dest = LocalId /\ Len(sw'.destTx) > 0) =>
       StoredTx(LocalId, World)' = sw'.destTx]_vars

\* C6. From the local provider holding N > 0 transactions and an authenticated
\* remote provider holding no file: after switchProvider(remote) and then
\* switchProvider(local), both returning true and with no mutator call, once the
\* loads they started have ended, the remote store, the local store and the
\* in-memory envelope each hold the original N transactions.
SwitchRoundTripKeepsData ==
  (/\ sw.start.active = LocalId /\ Len(sw.start.localTx) > 0
   /\ sw.start.files = <<>> /\ sw.start.token /\ sw.via = "switchProvider"
   /\ sw.trail = <<DriveId, LocalId>> /\ ops = 2 /\ sw.pc = "done"
   /\ ld = <<>> /\ orch.provider = orch.providerId) =>
     /\ StoredTx(DriveId, World) = sw.start.localTx
     /\ StoredTx(LocalId, World) = sw.start.localTx
     /\ orch.data # NullEnv /\ orch.data.tx = sw.start.localTx

\* C13. Legacy migration is one-time: with an envelope stored under the data key
\* and the legacy keys still present, the load the orchestrator makes on startup
\* leaves the stored envelope as it is and puts it in memory.
LegacyMigratesOnce ==
  [][(/\ orch.isLoading /\ ~orch'.isLoading /\ orch.provider = LocalId
      /\ ls.legacy /\ ls.data.kind = "plain") =>
       /\ ls'.data = ls.data
       /\ orch'.data = ls.data.env]_vars

\* The loadData run i reads a provider that stores nothing: the data key is
\* absent after the legacy migration had its turn, or the folder holds no file.
LoadsNothing(i) ==
  /\ ld' = RemoveAt(ld, i) /\ ops' = ops
  /\ IF ld[i].prov = LocalId THEN ls'.data = NoRecord ELSE Files(drive) = {}

\* C23: a loadData run on a provider that stores nothing publishes an envelope
\* with no transactions and empty settings, clears the error, ends the loading
\* state, and neither writes to the local store or the remote folder nor leaves a
\* save pending, scheduled or in flight.
EmptyLoadInitializes ==
  [][\A i \in 1..Len(ld) :
       LoadsNothing(i) =>
         /\ orch'.data = createBudgetData(<<>>, Absent, Absent)
         /\ orch'.error = NoErr /\ ~orch'.isLoading
         /\ ls'.data = ls.data /\ drive' = drive
         /\ pendingData' = pendingData /\ saveTimeout' = saveTimeout
         /\ inflight' = inflight]_vars

\* After a page load on an empty local store the empty envelope is published,
\* the loading state has ended and the data key is still absent.
EmptyLoadInitializesWitness ==
  /\ ops > 0 /\ ld = <<>> /\ sw.pc = "idle"
  /\ orch.provider = LocalId /\ orch.providerId = LocalId
  /\ orch.data = createBudgetData(<<>>, Absent, Absent)
  /\ orch.error = NoErr /\ ~orch.isLoading
  /\ ls.data = NoRecord

\* C26: a switch to the remote provider whose load() failed while the remote
\* file held transactions leaves the remote folder as it is: the file is not
\* overwritten and no second file is created next to it.
FailedLoadKeepsRemote ==
  [][(sw.pc = "saving" /\ sw.dest = DriveId /\ Len(sw.destTx) > 0 /\ sw.loaded = NullEnv)
        => drive' = drive]_vars

\* The loadData run i calls load() on the remote provider.
LoadsRemote(i) == ld' = RemoveAt(ld, i) /\ ops' = ops /\ ld[i].prov = DriveId

\* switchProvider calls load() or save() on the remote provider.
SwitchCallsRemote ==
  sw.pc = "loading" /\ sw.dest = DriveId /\ sw'.pc # "loading"

\* C29: when the orchestrator calls load() or save() on the remote provider, in
\* the loadData effect after a page load or a switch and in switchProvider itself,
\* the provider is available and isAuthenticated() holds of it.
AuthBeforeRemoteCall ==
  [][((\E i \in 1..Len(ld) : LoadsRemote(i)) \/ SwitchCallsRemote) =>
        /\ isAvailable(DriveId)
        /\ isAuthenticated(DriveId, World, now).ret]_vars

validatePassphrase(pass) == pass \in StrongPass

\* setPassphrase(passphrase) / clearPassphrase() on a provider record.
SetPassphrase(w, pass) == [w EXCEPT !.lsp.passphrase = pass]
ClearPassphrase(w) == [w EXCEPT !.lsp.passphrase = NoPass]

\* _loadRaw() followed by save()'s wrapping: a parsed envelope is kept; a stored
\* string that is no JSON has no version and no transactions, so createBudgetData
\* wraps it into an empty envelope.
LoadRaw(w) ==
  IF w.ls.data.kind = "none" THEN NullEnv
  ELSE IF w.ls.data.kind = "plain" THEN w.ls.data.env
  ELSE EmptyData

\* Calls a component makes on the active provider in one run.
MaxCalls == 5
\* How many of the latest calls and page loads the record of the run keeps.
MaxRecent == 4

\* The record l of the run, with event ev noted as the latest.
Noted(l, ev) ==
  [l EXCEPT !.recent = IF Len(@) < MaxRecent THEN Append(@, ev) ELSE Append(Tail(@), ev)]

\* An enableEncryption / disableEncryption call with argument pass: it threw, it
\* awaits its save(), or it returned true.
EncThrew(op, pass) ==
  [op |-> op, pass |-> pass, pc |-> "done", ret |-> FALSE, threw |-> TRUE,
   tick |-> 1 - last.enc.tick]
EncSaving(op, pass) ==
  [op |-> op, pass |-> pass, pc |-> "saving", ret |-> FALSE, threw |-> FALSE,
   tick |-> last.enc.tick]
EncReturned(e) == [e EXCEPT !.pc = "done", !.ret = TRUE, !.tick = 1 - @]

\* A component calls provider.load() and the call completes.
ProviderLoad(p, findOk, readOk) ==
  /\ p = orch.provider /\ pcall = NoCall
  /\ ops < MaxCalls
  /\ IF p = LocalId THEN findOk = "ok" /\ readOk = "ok" ELSE findOk = "fail" => readOk = "ok"
  /\ LET r == IF p = LocalId THEN LocalLoad(World) ELSE DriveLoad(World, findOk, readOk) IN
       /\ SetWorld(r.w)
       /\ last' = Noted(Outcome("load", p, r.ret # NullEnv, r.threw, r.ret, r.w), "load")
  /\ ops' = ops + 1
  /\ UNCHANGED <<cfg, now, tab, cr, mig, orch, pendingData, saveTimeout, inflight, sw, ld, pcall, hist>>

\* A component calls provider.save(e): the call up to its first suspension.
ProviderSave(p, e, outcome) ==
  /\ p = orch.provider /\ pcall = NoCall
  /\ ops < MaxCalls
  /\ LET r == SaveBegin(p, World, e, outcome) IN
       /\ SetWorld(r.w)
       /\ pcall' = r.call
       /\ last' = IF r.done THEN Noted(Outcome("save", p, r.ret, FALSE, e, r.w), "save")
                  ELSE last
  /\ ops' = ops + 1
  /\ UNCHANGED <<cfg, now, tab, cr, mig, orch, pendingData, saveTimeout, inflight, sw, ld, hist>>

\* The suspended save() is resumed and returns.
ProviderSaveReturns(outcome) ==
  /\ pcall # NoCall
  /\ LET r == SaveEnd(World, pcall, outcome) IN
       /\ SetWorld(r.w)
       /\ last' = [Noted(Outcome("save", pcall.prov, r.ret, FALSE, pcall.env, r.w), "save")
                     EXCEPT !.enc = IF @.pc = "saving" THEN EncReturned(@) ELSE @]
  /\ pcall' = NoCall
  /\ UNCHANGED <<cfg, now, tab, cr, mig, orch, pendingData, saveTimeout, inflight, sw, ld, hist, ops>>

setPassphrase(pass) ==
  /\ orch.provider = LocalId
  /\ ops < MaxCalls
  /\ lsp.passphrase # pass
  /\ SetWorld(SetPassphrase(World, pass))
  /\ last' = Noted(last, "setPassphrase")
  /\ ops' = ops + 1
  /\ UNCHANGED <<cfg, now, tab, cr, mig, orch, pendingData, saveTimeout, inflight, sw, ld, pcall, hist>>

clearPassphrase ==
  /\ orch.provider = LocalId
  /\ ops < MaxCalls
  /\ lsp.passphrase # NoPass
  /\ SetWorld(ClearPassphrase(World))
  /\ last' = Noted(last, "clearPassphrase")
  /\ ops' = ops + 1
  /\ UNCHANGED <<cfg, now, tab, cr, mig, orch, pendingData, saveTimeout, inflight, sw, ld, pcall, hist>>

\* enableEncryption(passphrase): an invalid passphrase throws before anything is
\* touched; otherwise the passphrase and both flags are set and an existing record
\* is saved again, and true is returned whatever save() answers.
enableEncryption(pass, outcome) ==
  /\ orch.provider = LocalId /\ pcall = NoCall
  /\ ops < MaxCalls
  /\ ops' = ops + 1
  /\ LET l == Noted(last, "enableEncryption")
         returned == EncReturned(EncSaving("enableEncryption", pass))
     IN
     IF ~validatePassphrase(pass)
     THEN /\ last' = [l EXCEPT !.enc = EncThrew("enableEncryption", pass)]
          /\ UNCHANGED <<ls, saltGen, drive, lsp, gdp, pcall>>
     ELSE LET existingData == LoadRaw(World)
              w1 == [World EXCEPT !.lsp.passphrase = pass, !.lsp.encryptionEnabled = TRUE,
                                  !.ls.flag = TRUE]
          IN
          IF existingData = NullEnv
          THEN SetWorld(w1) /\ last' = [l EXCEPT !.enc = returned] /\ pcall' = pcall
          ELSE LET r == LocalSaveBegin(w1, existingData, outcome) IN
               /\ SetWorld(r.w)
               /\ pcall' = r.call
               /\ last' = IF r.done
                          THEN [Outcome("save", LocalId, r.ret, FALSE, existingData, r.w)
                                  EXCEPT !.recent = l.recent, !.enc = returned]
                          ELSE [l EXCEPT !.enc = EncSaving("enableEncryption", pass)]
  /\ UNCHANGED <<cfg, now, tab, cr, mig, orch, pendingData, saveTimeout, inflight, sw, ld, hist>>

\* disableEncryption(passphrase): the passphrase is set and load() called; if it
\* throws, the error is thrown on. Otherwise the passphrase and both flags are
\* dropped, the salt is removed, and a record that was loaded is saved again, now
\* without encryption; true is returned whatever save() answers.
disableEncryption(pass, outcome) ==
  /\ orch.provider = LocalId /\ pcall = NoCall
  /\ ops < MaxCalls
  /\ ops' = ops + 1
  /\ LET l == Noted(last, "disableEncryption")
         r == LocalLoad(SetPassphrase(World, pass))
         w2 == [r.w EXCEPT !.lsp.encryptionEnabled = FALSE, !.lsp.passphrase = NoPass,
                           !.ls.flag = FALSE, !.ls.salt = NoSalt]
         s == LocalSaveBegin(w2, r.ret, outcome)
     IN
     IF r.threw
     THEN /\ SetWorld(r.w)
          /\ last' = [l EXCEPT !.enc = EncThrew("disableEncryption", pass)]
     ELSE IF r.ret = NullEnv
     THEN /\ SetWorld(w2)
          /\ last' = [l EXCEPT !.enc = EncReturned(EncSaving("disableEncryption", pass))]
     ELSE /\ SetWorld(s.w)
          /\ last' = [Outcome("save", LocalId, s.ret, FALSE, r.ret, s.w)
                        EXCEPT !.recent = l.recent,
                               !.enc = EncReturned(EncSaving("disableEncryption", pass))]
  /\ UNCHANGED <<cfg, now, tab, cr, mig, orch, pendingData, saveTimeout, inflight, sw, ld, pcall, hist>>

\* The consent flow answers a component's authenticate().
authenticate(granted) ==
  /\ orch.provider = DriveId /\ pcall = NoCall
  /\ ops < MaxCalls
  /\ ops' = ops + 1
  /\ SetWorld(DriveAuthenticate(World, granted, now))
  /\ last' = Noted(last, "authenticate")
  /\ UNCHANGED <<cfg, now, tab, cr, mig, orch, pendingData, saveTimeout, inflight, sw, ld, pcall, hist>>

\* The page is loaded again at time t: both provider objects are constructed anew,
\* and the initProvider effect calls isAuthenticated() on the active provider.
Reload(t) ==
  /\ pcall = NoCall
  /\ ops < MaxCalls
  /\ ops' = ops + 1
  /\ t >= now /\ (t # now => ls.token)
  /\ now' = t
  /\ SetWorld(isAuthenticated(orch.provider, Constructed(World), t).w)
  /\ last' = Noted(last, "reload")
  /\ UNCHANGED <<cfg, tab, cr, mig, orch, pendingData, saveTimeout, inflight, sw, ld, pcall, hist>>

\* Envelopes a component saves.
CallEnvs == {createBudgetData(<<"a">>, Absent, Absent), createBudgetData(<<"b", "a">>, 1, Absent)}

\* A page just loaded on either provider: the local data key is absent, holds an
\* envelope or holds text that is no JSON; the remote folder is empty or holds one
\* file; a token is held or not.
InitProvider ==
  /\ \E p \in ProviderIds, rec \in {NoRecord, Garbage} \cup {Plain(e) : e \in SomeEnvs},
        files \in {<<>>} \cup {<<e>> : e \in RemoteEnvs}, token \in BOOLEAN :
       /\ p = LocalId => files = <<>> /\ ~token
       /\ p = DriveId => rec = NoRecord
       /\ ls = [FreshLocalStore EXCEPT !.data = rec, !.pref = p, !.token = token]
       /\ drive = files
       /\ lsp = FreshLsp
       /\ gdp = IF token THEN [TokenHeld(FreshGdp, 0) EXCEPT !.user = FALSE] ELSE FreshGdp
       /\ orch = Loaded(p, EmptyData)
  /\ cfg = [clientId |-> TRUE]
  /\ now = 0
  /\ tab = NoTab
  /\ mig = NoMig
  /\ cr = NoCrypt
  /\ saltGen = 0
  /\ pendingData = NullEnv
  /\ saveTimeout = NoProvider
  /\ inflight = <<>>
  /\ sw = NoSwitch
  /\ ld = <<>>
  /\ pcall = NoCall
  /\ last = NoLast
  /\ hist = NoHist
  /\ ops = 0

NextProvider ==
  \/ \E p \in ProviderIds, f \in Outcomes, r \in Outcomes : ProviderLoad(p, f, r)
  \/ \E p \in ProviderIds, e \in CallEnvs, o \in Outcomes : ProviderSave(p, e, o)
  \/ \E o \in Outcomes : ProviderSaveReturns(o)
  \/ \E k \in Passphrases : setPassphrase(k)
  \/ clearPassphrase
  \/ \E k \in Passphrases, o \in Outcomes : enableEncryption(k, o)
  \/ \E k \in Passphrases, o \in Outcomes : disableEncryption(k, o)
  \/ \E granted \in BOOLEAN : authenticate(granted)
  \/ \E t \in Instants : Reload(t)

SpecProvider == InitProvider /\ [][NextProvider]_vars

\* A provider call of the given kind completes in this step.
Completes(op) == last'.tick # last.tick /\ last'.op = op

\* LocalStorageProvider.load() cannot succeed on this state: a record is stored
\* and it is unparsable, or encrypted with no passphrase held, or not opened by
\* the passphrase held.
LocalLoadMustFail ==
  /\ ls.data.kind # "none"
  /\ IF lsp.encryptionEnabled /\ ls.flag
     THEN \/ lsp.passphrase = NoPass
          \/ ~(ls.data.kind = "cipher" /\ ls.data.key = lsp.passphrase
                /\ ls.data.salt = ls.salt)
     ELSE ls.data.kind # "plain"

\* C8 as stated. load() of either provider never throws: on any internal failure
\* it returns null and the sync status becomes error with a message.
LoadNeverThrows ==
  [][Completes("load") =>
       /\ ~last'.threw
       /\ (last'.prov = LocalId /\ LocalLoadMustFail) =>
             last'.env = NullEnv /\ lsp'.status = "error" /\ lsp'.error # NoErr
       /\ (last'.prov = DriveId /\ ~gdp.accessToken) =>
             last'.env = NullEnv /\ gdp'.status = "error" /\ gdp'.error # NoErr]_vars

\* C8 amended. The remote load() never throws: on a failure it returns null and
\* its status becomes error with a message. The local load() fails exactly when
\* the stored record cannot be parsed or decrypted: its status becomes error with
\* a message, it throws that error to its caller, and the record is left as it is.
LoadReportsFailure ==
  [][Completes("load") =>
       IF last'.prov = DriveId
       THEN /\ ~last'.threw
            /\ gdp'.status \in {"synced", "error"}
            /\ ~gdp.accessToken => gdp'.status = "error"
            /\ gdp'.status = "error" => last'.env = NullEnv /\ gdp'.error # NoErr
            /\ drive' = drive
       ELSE /\ last'.threw <=> LocalLoadMustFail
            /\ last'.threw <=> lsp'.status = "error"
            /\ last'.threw => last'.env = NullEnv /\ lsp'.error # NoErr
            /\ ~last'.threw => lsp'.status = "synced"
            /\ ls'.data = ls.data]_vars

\* C8 witness: a local load() of a record the held passphrase does not open has
\* thrown, with the decryption message as the status.
LoadReportsFailureWitness ==
  /\ last.op = "load" /\ last.prov = LocalId /\ last.threw
  /\ ls.data.kind = "cipher" /\ lsp.passphrase \in StrongPass
  /\ lsp.passphrase # ls.data.key
  /\ lsp.status = "error" /\ lsp.error = ErrDecrypt

EncryptedPersistence ==
  [][(/\ Completes("load") /\ last'.prov = LocalId
      /\ ls.data.kind = "cipher" /\ ls.flag /\ lsp.encryptionEnabled
      /\ ls.data.salt = ls.salt) =>
       /\ lsp.passphrase = NoPass =>
            /\ last'.threw /\ lsp'.status = "error" /\ lsp'.error = ErrPassphrase
            /\ ls' = ls
       /\ lsp.passphrase = ls.data.key =>
            /\ ~last'.threw /\ last'.env = ls.data.env /\ lsp'.status = "synced"
            /\ ls' = ls]_vars

\* C10 witness: the page was loaded again, load() failed for want of a
\* passphrase, the passphrase was set, and the next load() has returned the two
\* transactions stored encrypted.
EncryptedPersistenceWitness ==
  /\ last.op = "load" /\ last.prov = LocalId /\ ~last.threw
  /\ last.before = ErrPassphrase
  /\ Len(last.recent) >= 4
  /\ SubSeq(last.recent, Len(last.recent) - 3, Len(last.recent))
       = <<"reload", "load", "setPassphrase", "load">>
  /\ ls.data.kind = "cipher" /\ ls.flag /\ lsp.passphrase = ls.data.key
  /\ last.env = ls.data.env /\ Len(last.env.tx) = 2

\* C27: while the encryption flag is persisted, before and after the write,
\* every record the local provider writes to the data key is ciphertext.
FlaggedWritesAreCiphertext ==
  [][(ls'.data # ls.data /\ ls'.data # NoRecord /\ ls.flag /\ ls'.flag)
        => ls'.data.kind = "cipher"]_vars

\* An enableEncryption / disableEncryption call ends in this step.
EncCompletes(op) == last'.enc.tick # last.enc.tick /\ last'.enc.op = op

\* C11. enableEncryption(passphrase), called with nothing or a plaintext envelope
\* stored, is all-or-nothing. Either it throws, and the persisted flag, the salt,
\* the stored record and the passphrase and flag the provider holds are as they
\* were; or it returns true, the persisted flag is set, and a record that was
\* stored is now ciphertext of the same envelope that the passphrase opens.
EnableEncryptionAllOrNothing ==
  [][(EncCompletes("enableEncryption") /\ ls.data.kind \in {"none", "plain"}) =>
       IF last'.enc.threw
       THEN /\ ls' = ls
            /\ lsp'.passphrase = lsp.passphrase
            /\ lsp'.encryptionEnabled = lsp.encryptionEnabled
       ELSE /\ last'.enc.ret /\ ls'.flag
            /\ ls.data.kind # "none" =>
                 /\ DecryptOpens(ls'.data, last'.enc.pass, ls'.salt)
                 /\ ls.data.kind \in {"plain", "cipher"} => ls'.data.env = ls.data.env]_vars

\* C12. disableEncryption(passphrase), called with encryption enabled and a record
\* stored that was encrypted under the stored salt, is all-or-nothing. Either it
\* throws, and the persisted flag, the salt, the stored record and the passphrase
\* and flag the provider holds are as they were; or it returns true, the flag and
\* the salt are cleared, and the record is now plaintext of the same envelope.
DisableEncryptionAllOrNothing ==
  [][(/\ EncCompletes("disableEncryption")
      /\ ls.flag /\ lsp.encryptionEnabled
      /\ ls.data.kind = "cipher" /\ ls.data.salt = ls.salt) =>
       IF last'.enc.threw
       THEN /\ ls' = ls
            /\ lsp'.passphrase = lsp.passphrase
            /\ lsp'.encryptionEnabled = lsp.encryptionEnabled
       ELSE /\ last'.enc.ret /\ ~ls'.flag /\ ls'.salt = NoSalt
            /\ ls.data.kind # "none" =>
                 /\ ls'.data.kind = "plain"
                 /\ ls.data.kind \in {"plain", "cipher"} => ls'.data.env = ls.data.env]_vars

\* C39: in every reachable state of either provider the sync status carries
\* an error message only while its state is error; a transition to idle,
\* syncing or synced clears the message.
ErrorMessageOnlyInError ==
  /\ lsp.error # NoErr => lsp.status = "error"
  /\ gdp.error # NoErr => gdp.status = "error"

\* C39 witness: a save() on the local provider failed for want of space, and
\* the save() after it succeeded and left the status synced without a message.
ErrorMessageOnlyInErrorWitness ==
  /\ last.op = "save" /\ last.prov = LocalId /\ last.ret
  /\ last.before = ErrQuota /\ last.err = NoErr
  /\ lsp.status = "synced" /\ lsp.error = NoErr

\* This step is a call of authenticate() on the remote provider, answered.
AuthenticateCalled ==
  /\ ops' = ops + 1 /\ last'.recent # last.recent
  /\ last'.recent[Len(last'.recent)] = "authenticate"

\* C40: a load(), a save() or an authenticate() that set the status to syncing
\* leaves it synced or error when it returns or throws; with no call pending
\* the status of neither provider is syncing.
SyncingEnds ==
  [][/\ (Completes("load") \/ Completes("save")) =>
          (IF last'.prov = LocalId THEN lsp'.status ELSE gdp'.status) \in {"synced", "error"}
     /\ AuthenticateCalled => gdp'.status \in {"synced", "error"}
     /\ pcall' = NoCall => lsp'.status # "syncing" /\ gdp'.status # "syncing"]_vars

\* C40 witness: a save() on the remote provider, token held, was syncing while
\* its request was out; the request failed and the status is error.
SyncingEndsWitness ==
  /\ last.op = "save" /\ last.prov = DriveId /\ ~last.ret
  /\ gdp.accessToken /\ gdp.status = "error" /\ gdp.error = ErrApi
  /\ pcall = NoCall

\* ------------------------------------------------------ remote provider calls

\* Time passes, up to one of the instants at which the clock is read. Only a
\* token's age depends on the clock.
TimePasses(t) ==
  /\ t > now
  /\ ls.token \/ gdp.accessToken
  /\ now' = t
  /\ UNCHANGED <<ls, saltGen, drive, cfg, tab, cr, mig, lsp, gdp, orch, pendingData,
                 saveTimeout, inflight, sw, ld, pcall, last, hist, ops>>

\* A component calls isAuthenticated() on the remote provider.
RemoteIsAuthenticated ==
  /\ orch.provider = DriveId
  /\ ops < MaxCalls
  /\ ops' = ops + 1
  /\ LET a == isAuthenticated(DriveId, World, now) IN
       /\ SetWorld(a.w)
       /\ last' = Outcome("isAuthenticated", DriveId, a.ret, FALSE, NullEnv, a.w)
  /\ UNCHANGED <<cfg, now, tab, cr, mig, orch, pendingData, saveTimeout, inflight, sw, ld, pcall, hist>>

\* The consent flow answers a call of authenticate() on the remote provider.
RemoteAuthenticate(granted) ==
  /\ orch.provider = DriveId
  /\ ops < MaxCalls
  /\ ops' = ops + 1
  /\ SetWorld(DriveAuthenticate(World, granted, now))
  /\ UNCHANGED <<cfg, now, tab, cr, mig, orch, pendingData, saveTimeout, inflight, sw, ld, pcall, last,
                 hist>>

\* A call of load() on the remote provider, from _findFile to its return.
RemoteLoad(findOk, readOk) ==
  /\ orch.provider = DriveId
  /\ ops < MaxCalls
  /\ ops' = ops + 1
  /\ findOk = "fail" => readOk = "ok"
  /\ SetWorld(DriveLoad(World, findOk, readOk).w)
  /\ UNCHANGED <<cfg, now, tab, cr, mig, orch, pendingData, saveTimeout, inflight, sw, ld, pcall, last,
                 hist>>

\* A call of save(e) on the remote provider up to its request; nothing keeps a
\* caller from making it while an earlier one awaits its answer.
RemoteSave(e) ==
  /\ orch.provider = DriveId
  /\ ops < MaxCalls
  /\ ops' = ops + 1
  /\ LET r == DriveSaveBegin(World, e) IN
       /\ SetWorld(r.w)
       /\ IF r.done THEN inflight' = inflight
          ELSE Len(inflight) < MaxInflight /\ inflight' = Append(inflight, r.call)
  /\ UNCHANGED <<cfg, now, tab, cr, mig, orch, pendingData, saveTimeout, sw, ld, pcall, last, hist>>

\* GoogleDriveProvider.delete(): nothing to do without a file id; otherwise one
\* DELETE request, after which the file id is dropped and the status is idle.
DriveDelete(w, outcome) ==
  IF w.gdp.fileId = NoFile THEN w
  ELSE IF ~w.gdp.accessToken
  THEN [w EXCEPT !.gdp = UpdateSyncStatus(w.gdp, "error", ErrNotAuth)]
  ELSE IF outcome # "ok" \/ w.gdp.fileId \notin Files(w.drive)
  THEN [w EXCEPT !.gdp = UpdateSyncStatus(w.gdp, "error", ErrApi)]
  ELSE [w EXCEPT !.drive[w.gdp.fileId] = NullEnv,
                 !.gdp = [UpdateSyncStatus(w.gdp, "idle", NoErr) EXCEPT !.fileId = NoFile]]

\* What delete() returns: true without a file id and after an accepted request,
\* false from the catch block.
DriveDeleteReturns(w, outcome) ==
  \/ w.gdp.fileId = NoFile
  \/ w.gdp.accessToken /\ outcome = "ok" /\ w.gdp.fileId \in Files(w.drive)

RemoteDelete(outcome) ==
  /\ orch.provider = DriveId
  /\ ops < MaxCalls
  /\ ops' = ops + 1
  /\ SetWorld(DriveDelete(World, outcome))
  /\ last' = Outcome("delete", DriveId, DriveDeleteReturns(World, outcome), FALSE, NullEnv,
                     DriveDelete(World, outcome))
  /\ UNCHANGED <<cfg, now, tab, cr, mig, orch, pendingData, saveTimeout, inflight, sw, ld, pcall,
                 hist>>

\* A call of signOut() on the remote provider: holding a token it first awaits
\* the revocation request; holding none it clears the session at once. The
\* outcome recorded for signOut has ret true when a revocation was accepted.
Revoking == [kind |-> "revoke", prov |-> DriveId]

RemoteSignOut ==
  /\ orch.provider = DriveId /\ pcall = NoCall
  /\ ops < MaxCalls
  /\ ops' = ops + 1
  /\ IF gdp.accessToken
     THEN pcall' = Revoking /\ UNCHANGED <<ls, saltGen, drive, lsp, gdp, last>>
     ELSE /\ pcall' = pcall
          /\ SetWorld(DriveSignOut(World, "ok"))
          /\ last' = Outcome("signOut", DriveId, FALSE, FALSE, NullEnv,
                             DriveSignOut(World, "ok"))
  /\ UNCHANGED <<cfg, now, tab, cr, mig, orch, pendingData, saveTimeout, inflight, sw, ld, hist>>

\* The revocation request is answered or fails; signOut() runs to its end.
RemoteRevoked(revoked) ==
  /\ pcall = Revoking
  /\ pcall' = NoCall
  /\ SetWorld(DriveSignOut(World, revoked))
  /\ last' = Outcome("signOut", DriveId, revoked = "ok", FALSE, NullEnv,
                     DriveSignOut(World, revoked))
  /\ UNCHANGED <<cfg, now, tab, cr, mig, orch, pendingData, saveTimeout, inflight, sw, ld, hist, ops>>

\* A page just loaded with the remote provider active: the folder is empty or
\* holds one file; a token of an earlier session is stored or not, with or
\* without the extended session; the provider holds nothing yet.
InitRemote ==
  /\ \E files \in {<<>>} \cup {<<e>> : e \in RemoteEnvs}, token \in BOOLEAN,
        remember \in BOOLEAN :
       /\ ls = [FreshLocalStore EXCEPT !.pref = DriveId, !.token = token,
                                       !.remember = remember]
       /\ drive = files
  /\ lsp = FreshLsp
  /\ gdp = FreshGdp
  /\ orch = Loaded(DriveId, EmptyData)
  /\ cfg = [clientId |-> TRUE]
  /\ now = 0
  /\ tab = NoTab
  /\ mig = NoMig
  /\ cr = NoCrypt
  /\ saltGen = 0
  /\ pendingData = NullEnv
  /\ saveTimeout = NoProvider
  /\ inflight = <<>>
  /\ sw = NoSwitch
  /\ ld = <<>>
  /\ pcall = NoCall
  /\ last = NoLast
  /\ hist = NoHist
  /\ ops = 0

NextRemote ==
  \/ \E t \in Instants : TimePasses(t)
  \/ RemoteIsAuthenticated
  \/ \E granted \in BOOLEAN : RemoteAuthenticate(granted)
  \/ \E f \in Outcomes, r \in Outcomes : RemoteLoad(f, r)
  \/ \E e \in CallEnvs : RemoteSave(e)
  \/ \E i \in 1..MaxInflight, o \in Outcomes : SaveCompletes(i, o)
  \/ \E o \in Outcomes : RemoteDelete(o)
  \/ RemoteSignOut
  \/ \E rv \in Outcomes : RemoteRevoked(rv)

SpecRemote == InitRemote /\ [][NextRemote]_vars

\* C14. At most one remote file with the fixed name exists, whatever calls of
\* authenticate, load, save, delete and signOut are made on the remote provider.
AtMostOneRemoteFile == Cardinality(Files(drive)) <= 1

\* The age of the token the remote provider holds, and whether a token is stored
\* that has outlived its session.
HeldTokenAge == now - gdp.issuedAt
StoredTokenExpired == ls.token /\ now - ls.tokenTime >= maxAge(ls)

\* C16. isAuthenticated() of the remote provider answers true only when it ends
\* holding a token younger than the session maximum (60 seconds, or 55 minutes
\* with the extended session), be the token one it held or one it restored; and it
\* removes a stored token that has expired.
TokenExpires ==
  [][Completes("isAuthenticated") =>
       /\ last'.ret => (gdp'.accessToken /\ HeldTokenAge' < maxAge(ls))
       /\ StoredTokenExpired => ~ls'.token]_vars

\* C17. signOut() of the remote provider ends with the token, the file id and the
\* user dropped, the stored token and its time removed and the status idle,
\* whether or not the revocation request was accepted; isAuthenticated() called
\* next answers false.
SignOutClearsSession ==
  [][Completes("signOut") =>
       /\ ~gdp'.accessToken /\ gdp'.fileId = NoFile /\ ~gdp'.user
       /\ ~ls'.token /\ ls'.tokenTime = 0
       /\ gdp'.status = "idle" /\ gdp'.error = NoErr
       /\ ~(isAuthenticated(DriveId, World, now).ret)']_vars

\* C17 witness: a session with a token, a user and a known file id has been signed
\* out, the revocation request having failed.
SignOutClearsSessionWitness ==
  /\ last.op = "signOut" /\ ~last.ret /\ pcall = NoCall
  /\ last.before = ErrApi
  /\ Files(drive) # {}
  /\ ~gdp.accessToken /\ gdp.fileId = NoFile /\ ~gdp.user /\ ~ls.token
  /\ gdp.status = "idle"

\* C37: after delete() has returned true the provider holds no data: its status
\* is idle and a load() called next, its requests answered, returns null,
\* whether or not the provider had a file id from an earlier load().
DeleteLeavesNothing ==
  [][(Completes("delete") /\ last'.ret) =>
       /\ gdp'.status = "idle"
       /\ (DriveLoad(World, "ok", "ok").ret = NullEnv)']_vars

\* ------------------------------------------------- mutators before a load

\* A page load has constructed the providers and the orchestrator holds no
\* envelope yet. The preference is local, with the data key absent, holding an
\* envelope, holding an envelope encrypted under a passphrase the new provider
\* object does not hold, or holding text that is no JSON; or it is remote, with
\* or without a stored token and a file.
InitStartup ==
  /\ \E p \in ProviderIds,
        rec \in {NoRecord, Garbage} \cup {Plain(e) : e \in SomeEnvs}
                \cup {Cipher(e, "Str0ngPass1", 1) : e \in SomeEnvs},
        files \in {<<>>} \cup {<<e>> : e \in RemoteEnvs}, token \in BOOLEAN :
       /\ p = LocalId => files = <<>> /\ ~token
       /\ p = DriveId => rec = NoRecord
       /\ ls = [FreshLocalStore EXCEPT !.data = rec, !.pref = p, !.token = token,
                                       !.flag = rec.kind = "cipher",
                                       !.salt = IF rec.kind = "cipher" THEN 1 ELSE NoSalt]
       /\ saltGen = IF rec.kind = "cipher" THEN 1 ELSE 0
       /\ lsp = [FreshLsp EXCEPT !.encryptionEnabled = rec.kind = "cipher"]
       /\ gdp = FreshGdp
       /\ drive = files
       /\ orch = [providerId |-> p, provider |-> NoProvider, data |-> NullEnv,
                  rdata |-> NullEnv, error |-> NoErr, isLoading |-> TRUE]
  /\ cfg = [clientId |-> TRUE]
  /\ now = 0
  /\ tab = NoTab
  /\ mig = NoMig
  /\ cr = NoCrypt
  /\ pendingData = NullEnv
  /\ saveTimeout = NoProvider
  /\ inflight = <<>>
  /\ sw = NoSwitch
  /\ ld = <<>>
  /\ pcall = NoCall
  /\ last = NoLast
  /\ hist = NoHist
  /\ ops = 0

NextStartup ==
  \/ initProvider
  \/ \E o \in Outcomes, f \in Outcomes, r \in Outcomes : loadData(1, o, f, r)
  \/ Render
  \/ \E t \in Ids, o \in Outcomes : addTransaction(t, o)
  \/ \E l \in BulkLists, o \in Outcomes : addTransactions(l, o)
  \/ \E t \in Ids, o \in Outcomes : deleteTransaction(t, o)
  \/ \E l \in IdLists, o \in Outcomes : deleteTransactions(l, o)
  \/ \E v \in Patches, o \in Outcomes : updateSettings(v, o)
  \/ \E v \in Patches, o \in Outcomes : updatePayPeriodConfig(v, o)
  \/ \E o \in Outcomes : WindowElapses(o)
  \/ \E i \in 1..MaxInflight, o \in Outcomes : SaveCompletes(i, o)

SpecStartup == InitStartup /\ [][NextStartup]_vars

\* This step is a call of one of the six mutators, acted on or not.
MutatorEntered == MutatorCalled \/ (ops' = ops + 1 /\ hist'.ignored # hist.ignored)

\* C38: while the orchestrator holds no envelope, before the first load has
\* completed or after a load has failed, a call of any mutator leaves the
\* in-memory state as it was, schedules no write and issues none.
NoEnvelopeNoMutation ==
  [][(MutatorEntered /\ orch.data = NullEnv) =>
       /\ orch' = orch
       /\ pendingData' = pendingData /\ saveTimeout' = saveTimeout
       /\ inflight' = inflight /\ hist'.saves = hist.saves /\ ~hist'.open
       /\ ls' = ls /\ drive' = drive /\ lsp' = lsp /\ gdp' = gdp]_vars

\* C38 witness: load() has thrown for want of a passphrase, the orchestrator
\* holds no envelope, and two mutator calls have returned without effect.
NoEnvelopeNoMutationWitness ==
  /\ orch.data = NullEnv /\ orch.rdata = NullEnv
  /\ orch.error = ErrPassphrase /\ ~orch.isLoading /\ ld = <<>>
  /\ ls.data.kind = "cipher"
  /\ hist.ignored = 2 /\ ops = 2
  /\ pendingData = NullEnv /\ saveTimeout = NoProvider /\ inflight = <<>>

\* ------------------------------------------------------------- other tabs

\* How many times the other tab writes.
MaxForeign == 2

\* Another tab of the same origin, running the same program without encryption,
\* saves envelope e under the data key; the browser queues a storage event for
\* this tab.
OtherTabWrites(e) ==
  /\ tab.writes < MaxForeign
  /\ ~ls.flag
  /\ ls' = [ls EXCEPT !.data = Plain(e)]
  /\ tab' = [tab EXCEPT !.event = TRUE, !.wrote = TRUE, !.at = ops, !.writes = @ + 1]
  /\ UNCHANGED <<now, cr, mig, saltGen, drive, cfg, lsp, gdp, orch, pendingData, saveTimeout,
                 inflight, sw, ld, pcall, last, hist, ops>>

\* The callbacks a caller may subscribe: setSyncStatus, which initProvider
\* subscribes, one that throws whenever it is called, and one that returns.
Listeners == {"setSyncStatus", "throwing", "logging"}
Throws(cb) == cb = "throwing"

\* _notifyListeners calls each callback inside try / catch.
CallbackUncaught == FALSE
CallbackCaught == TRUE

\* _notifyListeners() over the callbacks cbs, the status being st: the calls
\* made, in order. An exception that is not caught ends the loop.
RECURSIVE notifyListeners(_, _)
notifyListeners(cbs, st) ==
  IF cbs = <<>> THEN <<>>
  ELSE IF Throws(Head(cbs)) /\ ~CallbackCaught
  THEN <<[cb |-> Head(cbs), status |-> st]>>
  ELSE <<[cb |-> Head(cbs), status |-> st]>> \o notifyListeners(Tail(cbs), st)

\* The storage event reaches this tab. For the data key _handleStorageEvent sets
\* the status to synced, which notifies the listeners, and notifies them once
\* more; for another key it does nothing. No listener touches the data or the
\* provider.
StorageEvent ==
  /\ tab.event
  /\ tab' = [tab EXCEPT !.event = FALSE]
  /\ IF tab.key = STORAGE_KEY
     THEN /\ lsp' = UpdateSyncStatus(lsp, "synced", NoErr)
          /\ last' = [last EXCEPT !.heard = notifyListeners(lsp.listeners, "synced")
                                             \o notifyListeners(lsp.listeners, "synced")]
     ELSE /\ lsp' = lsp
          /\ last' = [last EXCEPT !.heard = <<>>]
  /\ UNCHANGED <<now, cr, mig, ls, saltGen, drive, cfg, gdp, orch, pendingData, saveTimeout,
                 inflight, sw, ld, pcall, hist, ops>>

\* This tab after startup has loaded, on the local provider without encryption.
InitTabs ==
  /\ \E e \in {EmptyData} \cup SomeEnvs :
       /\ ls = [FreshLocalStore EXCEPT !.data = Plain(e)]
       /\ orch = Loaded(LocalId, e)
  /\ lsp = [FreshLsp EXCEPT !.status = "synced"]
  /\ gdp = FreshGdp
  /\ drive = <<>>
  /\ cfg = [clientId |-> TRUE]
  /\ now = 0
  /\ tab = NoTab
  /\ mig = NoMig
  /\ cr = NoCrypt
  /\ saltGen = 0
  /\ pendingData = NullEnv
  /\ saveTimeout = NoProvider
  /\ inflight = <<>>
  /\ sw = NoSwitch
  /\ ld = <<>>
  /\ pcall = NoCall
  /\ last = NoLast
  /\ hist = NoHist
  /\ ops = 0

NextTabs ==
  \/ \E t \in Ids, o \in Outcomes : addTransaction(t, o)
  \/ \E o \in Outcomes : WindowElapses(o)
  \/ Render
  \/ \E e \in CallEnvs \cup RemoteEnvs : OtherTabWrites(e)
  \/ StorageEvent

\* The browser delivers a queued storage event, a timer that was set fires, and
\* React renders a state that changed.
SpecTabs ==
  /\ InitTabs /\ [][NextTabs]_vars
  /\ WF_vars(StorageEvent)
  /\ WF_vars(\E o \in Outcomes : WindowElapses(o))
  /\ WF_vars(Render)

\* The envelope in memory is the one stored under the data key.
InMemoryIsStored == ls.data.kind = "plain" /\ orch.data = ls.data.env

\* C15. After another tab has written the data key, and unless this tab calls a
\* mutator after that write, this tab's in-memory envelope eventually equals the
\* stored envelope.
CrossTabConsistency == tab.wrote ~> (ops # tab.at \/ InMemoryIsStored)

\* ------------------------------------------- storage events and listeners

PROVIDER_PREFERENCE_KEY == "peasant-budget-storage-provider"
TokenKey == "google_access_token"
EventKeys == {STORAGE_KEY, PROVIDER_PREFERENCE_KEY, TokenKey}

\* _listeners.add(callback): a Set keeps one entry per callback.
onSyncStatusChange(cb) ==
  /\ lsp' = [lsp EXCEPT !.listeners = IF \E i \in 1..Len(@) : @[i] = cb THEN @ ELSE Append(@, cb)]
  /\ UNCHANGED <<now, tab, cr, mig, ls, saltGen, drive, cfg, gdp, orch, pendingData,
                 saveTimeout, inflight, sw, ld, pcall, last, hist, ops>>

\* The function onSyncStatusChange returned: _listeners.delete(callback).
Unsubscribe(cb) ==
  /\ \E i \in 1..Len(lsp.listeners) : lsp.listeners[i] = cb
  /\ lsp' = [lsp EXCEPT !.listeners = SelectSeq(@, LAMBDA c : c # cb)]
  /\ UNCHANGED <<now, tab, cr, mig, ls, saltGen, drive, cfg, gdp, orch, pendingData,
                 saveTimeout, inflight, sw, ld, pcall, last, hist, ops>>

\* Another tab of the same origin sets a key: the data key to envelope e, the
\* provider preference to the other provider, or the remote provider's token.
\* The browser queues a storage event with that key for this tab.
OtherTabSets(key, e) ==
  /\ ~tab.event
  /\ ls' = IF key = STORAGE_KEY THEN [ls EXCEPT !.data = Plain(e)]
           ELSE IF key = PROVIDER_PREFERENCE_KEY
           THEN [ls EXCEPT !.pref = IF @ = LocalId THEN DriveId ELSE LocalId]
           ELSE TokenStored(ls, now)
  /\ ls' # ls
  /\ tab' = [tab EXCEPT !.event = TRUE, !.key = key]
  /\ UNCHANGED <<now, cr, mig, saltGen, drive, cfg, lsp, gdp, orch, pendingData, saveTimeout,
                 inflight, sw, ld, pcall, last, hist, ops>>

\* A local provider in any of its statuses, with no listener yet, in a tab that
\* has loaded.
InitEvents ==
  /\ \E e \in {EmptyData} \cup SomeEnvs :
       /\ ls = [FreshLocalStore EXCEPT !.data = Plain(e)]
       /\ orch = Loaded(LocalId, e)
  /\ \E st \in {"idle", "syncing", "synced", "error"} :
       lsp = UpdateSyncStatus(FreshLsp, st, IF st = "error" THEN ErrQuota ELSE NoErr)
  /\ gdp = FreshGdp
  /\ drive = <<>>
  /\ cfg = [clientId |-> TRUE]
  /\ now = 0
  /\ tab = NoTab
  /\ mig = NoMig
  /\ cr = NoCrypt
  /\ saltGen = 0
  /\ pendingData = NullEnv
  /\ saveTimeout = NoProvider
  /\ inflight = <<>>
  /\ sw = NoSwitch
  /\ ld = <<>>
  /\ pcall = NoCall
  /\ last = NoLast
  /\ hist = NoHist
  /\ ops = 0

NextEvents ==
  \/ \E cb \in Listeners : onSyncStatusChange(cb)
  \/ \E cb \in Listeners : Unsubscribe(cb)
  \/ \E key \in EventKeys, e \in {EmptyData} \cup SomeEnvs : OtherTabSets(key, e)
  \/ StorageEvent

SpecEvents == InitEvents /\ [][NextEvents]_vars

\* Every callback subscribed has been called with status st.
AllNotified(cbs, calls, st) ==
  \A i \in 1..Len(cbs) : \E j \in 1..Len(calls) : calls[j] = [cb |-> cbs[i], status |-> st]

\* C35: when a storage event for the data key is handled, the local provider's
\* status becomes synced and every subscribed listener is called with it, those
\* subscribed after a listener that throws included; when an event for another
\* key is handled, no listener is called and nothing but the event's being
\* pending changes.
StorageEventNotifies ==
  [][(tab.event /\ ~tab'.event) =>
       IF tab.key = STORAGE_KEY
       THEN /\ lsp'.status = "synced"
            /\ AllNotified(lsp.listeners, last'.heard, "synced")
       ELSE /\ last'.heard = <<>>
            /\ last' = [last EXCEPT !.heard = <<>>]
            /\ tab' = [tab EXCEPT !.event = FALSE]
            /\ UNCHANGED <<now, cr, mig, ls, saltGen, drive, cfg, lsp, gdp, orch, pendingData,
                           saveTimeout, inflight, sw, ld, pcall, hist, ops>>]_vars

\* C35 witness: a provider whose first listener throws has handled an
\* event for the data key: it is synced, and the listener subscribed second was
\* called as well.
StorageEventNotifiesWitness ==
  /\ ~tab.event /\ tab.key = STORAGE_KEY
  /\ lsp.listeners = <<"throwing", "setSyncStatus">>
  /\ lsp.status = "synced" /\ lsp.error = NoErr
  /\ last.heard = <<[cb |-> "throwing", status |-> "synced"],
                    [cb |-> "setSyncStatus", status |-> "synced"],
                    [cb |-> "throwing", status |-> "synced"],
                    [cb |-> "setSyncStatus", status |-> "synced"]>>

\* -------------------------------------------------- encrypt() and decrypt()

\* Strings are sequences of UTF-16 code units, byte arrays sequences of 0..255.
\* A base64 string is the sequence of its characters' values 0..63, '=' being 64.
ivLength == 12
saltLength == 16
tagLength == 128
MinPassphraseLength == 8

\* The longest plaintext tried, in code units.
MaxLen == 2

\* 'A', e acute, the euro sign, the two halves of U+1F600, and U+FEFF.
CodeUnits == {65, 233, 8364, 55357, 56832, 65279}
Plaintexts == UNION {[1..n -> CodeUnits] : n \in 0..MaxLen}

\* "Pass1234", "Pass123", the empty passphrase, "Pass12" followed by U+1F600, and
\* "Pass123" followed by the first and by the second half of U+1F600.
CryptoPassphrases ==
  {<<80, 97, 115, 115, 49, 50, 51, 52>>, <<80, 97, 115, 115, 49, 50, 51>>, <<>>,
   <<80, 97, 115, 115, 49, 50, 55357, 56832>>,
   <<80, 97, 115, 115, 49, 50, 51, 55357>>, <<80, 97, 115, 115, 49, 50, 51, 56832>>}

RECURSIVE Sum(_)
Sum(b) == IF b = <<>> THEN 0 ELSE Head(b) + Sum(Tail(b))

IsHighSurrogate(c) == c \in 55296..56319
IsLowSurrogate(c) == c \in 56320..57343

\* A string without a surrogate that lacks its other half.
RECURSIVE WellFormed(_)
WellFormed(s) ==
  IF s = <<>> THEN TRUE
  ELSE IF IsHighSurrogate(s[1])
  THEN Len(s) >= 2 /\ IsLowSurrogate(s[2]) /\ WellFormed(Tail(Tail(s)))
  ELSE ~IsLowSurrogate(s[1]) /\ WellFormed(Tail(s))

\* new TextEncoder().encode(s): UTF-8, a lone surrogate becoming U+FFFD.
RECURSIVE TextEncode(_)
TextEncode(s) ==
  IF s = <<>> THEN <<>>
  ELSE LET c == Head(s) IN
       IF c < 128 THEN <<c>> \o TextEncode(Tail(s))
       ELSE IF c < 2048
       THEN <<192 + c \div 64, 128 + (c % 64)>> \o TextEncode(Tail(s))
       ELSE IF IsHighSurrogate(c) /\ Len(s) >= 2 /\ IsLowSurrogate(s[2])
       THEN LET cp == 65536 + (c - 55296) * 1024 + (s[2] - 56320) IN
            <<240 + cp \div 262144, 128 + ((cp \div 4096) % 64), 128 + ((cp \div 64) % 64),
              128 + (cp % 64)>> \o TextEncode(Tail(Tail(s)))
       ELSE IF IsHighSurrogate(c) \/ IsLowSurrogate(c)
       THEN <<239, 191, 189>> \o TextEncode(Tail(s))
       ELSE <<224 + c \div 4096, 128 + ((c \div 64) % 64), 128 + (c % 64)>> \o TextEncode(Tail(s))

IsContinuation(x) == x \in 128..191

\* The UTF-8 decoder: a byte that begins no complete sequence becomes U+FFFD.
RECURSIVE Utf8Decode(_)
Utf8Decode(b) ==
  IF b = <<>> THEN <<>>
  ELSE LET x == Head(b)
           n == Len(b) IN
       IF x < 128 THEN <<x>> \o Utf8Decode(Tail(b))
       ELSE IF x \in 194..223 /\ n >= 2 /\ IsContinuation(b[2])
       THEN <<(x - 192) * 64 + (b[2] - 128)>> \o Utf8Decode(SubSeq(b, 3, n))
       ELSE IF /\ x \in 224..239 /\ n >= 3 /\ IsContinuation(b[2]) /\ IsContinuation(b[3])
               /\ x = 224 => b[2] >= 160
               /\ x = 237 => b[2] <= 159
       THEN <<(x - 224) * 4096 + (b[2] - 128) * 64 + (b[3] - 128)>>
              \o Utf8Decode(SubSeq(b, 4, n))
       ELSE IF /\ x \in 240..244 /\ n >= 4
               /\ IsContinuation(b[2]) /\ IsContinuation(b[3]) /\ IsContinuation(b[4])
               /\ x = 240 => b[2] >= 144
               /\ x = 244 => b[2] <= 143
       THEN LET cp == (x - 240) * 262144 + (b[2] - 128) * 4096 + (b[3] - 128) * 64
                        + (b[4] - 128) - 65536 IN
            <<55296 + cp \div 1024, 56320 + (cp % 1024)>> \o Utf8Decode(SubSeq(b, 5, n))
       ELSE <<65533>> \o Utf8Decode(Tail(b))

\* A decoder that takes every byte for one character.
TextDecodeBytewise(b) == b

\* new TextDecoder().decode(b): UTF-8 with ignoreBOM false, so that a byte order
\* mark at the start is dropped.
TextDecode(b) ==
  IF Len(b) >= 3 /\ SubSeq(b, 1, 3) = <<239, 187, 191>>
  THEN Utf8Decode(SubSeq(b, 4, Len(b)))
  ELSE Utf8Decode(b)

\* arrayBufferToBase64: btoa over the bytes, three at a time, padded with '='.
RECURSIVE arrayBufferToBase64(_)
arrayBufferToBase64(b) ==
  IF b = <<>> THEN <<>>
  ELSE IF Len(b) = 1
  THEN <<b[1] \div 4, (b[1] % 4) * 16, 64, 64>>
  ELSE IF Len(b) = 2
  THEN <<b[1] \div 4, (b[1] % 4) * 16 + b[2] \div 16, (b[2] % 16) * 4, 64>>
  ELSE <<b[1] \div 4, (b[1] % 4) * 16 + b[2] \div 16, (b[2] % 16) * 4 + b[3] \div 64,
         b[3] % 64>> \o arrayBufferToBase64(SubSeq(b, 4, Len(b)))

\* A character that is not of the base64 alphabet, such as the '{' that a
\* plaintext record begins with.
NotBase64 == 65

\* atob(s) throws InvalidCharacterError unless s, without the padding of a string
\* whose length is a multiple of four, has only characters of the alphabet and a
\* length that is not one more than a multiple of four.
Unpadded(s) ==
  IF Len(s) >= 4 /\ Len(s) % 4 = 0 /\ s[Len(s)] = 64
  THEN IF s[Len(s) - 1] = 64 THEN SubSeq(s, 1, Len(s) - 2) ELSE SubSeq(s, 1, Len(s) - 1)
  ELSE s
atobAccepts(s) ==
  /\ Len(Unpadded(s)) % 4 # 1
  /\ \A i \in 1..Len(Unpadded(s)) : Unpadded(s)[i] \in 0..63

\* base64ToArrayBuffer: atob over the characters, four at a time.
RECURSIVE base64ToArrayBuffer(_)
base64ToArrayBuffer(s) ==
  IF Len(s) < 2 THEN <<>>
  ELSE LET one == s[1] * 4 + s[2] \div 16
           two == (s[2] % 16) * 16 + s[3] \div 4
           three == (s[3] % 4) * 64 + s[4] IN
       IF Len(s) = 2 THEN <<one>>
       ELSE IF s[3] = 64 THEN <<one>>
       ELSE IF Len(s) = 3 THEN <<one, two>>
       ELSE IF s[4] = 64 THEN <<one, two>>
       ELSE <<one, two, three>> \o base64ToArrayBuffer(SubSeq(s, 5, Len(s)))

\* A key derivation that leaves the passphrase out.
deriveKeyFromSalt(passphrase, salt) == [pass |-> <<>>, salt |-> salt]

\* deriveKey: PBKDF2 over the passphrase's UTF-8 bytes and the salt. The key is
\* not extractable; all that matters of it is which passphrase and salt made it.
deriveKey(passphrase, salt) == [pass |-> TextEncode(passphrase), salt |-> salt]

\* crypto.subtle.encrypt / decrypt with AES-GCM, by what the callers rely on: the
\* output is the input's length plus the tag's, it depends on key, iv and data,
\* and decrypt gives the data back under the same key and iv and rejects
\* everything else with an OperationError: `sealed` is the key, iv and buffer of
\* the encryption made, the only buffer the tag check lets through.
KeyByte(key, iv) == (Sum(key.pass) + Sum(key.salt) + Sum(iv)) % 256
Tag(key, iv, data) ==
  [i \in 1..(tagLength \div 8) |-> (Sum(data) + KeyByte(key, iv) + i) % 256]
SubtleEncrypt(key, iv, data) ==
  [i \in 1..Len(data) |-> (data[i] + KeyByte(key, iv)) % 256] \o Tag(key, iv, data)
NotSealed == [key |-> <<>>, iv |-> <<>>, buf |-> <<>>]
SubtleDecrypt(key, iv, buf, sealed) ==
  LET n == Len(buf) - tagLength \div 8
      data == [i \in 1..n |-> (buf[i] + 256 - KeyByte(key, iv)) % 256] IN
  IF sealed # NotSealed /\ sealed = [key |-> key, iv |-> iv, buf |-> buf]
  THEN [ok |-> TRUE, data |-> data]
  ELSE [ok |-> FALSE, data |-> <<>>]

\* getRandomBytes(length): some bytes.
RandomBytes(length) == {[i \in 1..length |-> 0], [i \in 1..length |-> (37 * i) % 256]}

\* The salt as encryption.js reads it: the stored one decoded, or a new one
\* stored for later calls. `stored` is the base64 string under the salt key, or
\* the empty string when there is none.
SaltOf(stored, fresh) ==
  IF stored # <<>>
  THEN [stored |-> stored, salt |-> base64ToArrayBuffer(stored)]
  ELSE [stored |-> arrayBufferToBase64(fresh), salt |-> fresh]

ErrNoCrypto == "Web Crypto API not available"
ErrShort == "Passphrase must be at least 8 characters"
ErrNoPassphrase == "Passphrase is required for decryption"
ErrOperation == "Invalid passphrase or corrupted data"
ErrDecryptFailed == "Failed to decrypt data"

\* One run: the arguments of encrypt, the stored salt, where the run stands, the
\* blob encrypt returned, what was done to it since, the passphrase given to
\* decrypt and what decrypt returned or threw.
CryptoRun(plaintext, passphrase, stored, available) ==
  [pc |-> "start", P |-> plaintext, K |-> passphrase, salt |-> stored, crypto |-> available,
   blob |-> <<>>, sealed |-> NotSealed, tamper |-> "none", K2 |-> <<>>, out |-> <<>>,
   err |-> NoErr]

\* encrypt(c.P, c.K), with iv and fresh as the random bytes it draws.
encrypt(c, iv, fresh) ==
  IF ~c.crypto THEN [c EXCEPT !.pc = "encryptThrew", !.err = ErrNoCrypto]
  ELSE IF Len(c.K) < MinPassphraseLength
  THEN [c EXCEPT !.pc = "encryptThrew", !.err = ErrShort]
  ELSE LET s == SaltOf(c.salt, fresh)
           key == deriveKey(c.K, s.salt)
           data == TextEncode(c.P)
           encryptedBuffer == SubtleEncrypt(key, iv, data) IN
       [c EXCEPT !.pc = "encrypted", !.salt = s.stored,
                 !.blob = arrayBufferToBase64(iv \o encryptedBuffer),
                 !.sealed = [key |-> key, iv |-> iv, buf |-> encryptedBuffer]]

\* decrypt(c.blob, passphrase). What atob or crypto.subtle.decrypt throws is
\* caught: an OperationError is reported as an invalid passphrase or corrupted
\* data, anything else as a failure to decrypt.
decrypt(c, passphrase, fresh) ==
  IF ~c.crypto THEN [c EXCEPT !.pc = "decryptThrew", !.K2 = passphrase, !.err = ErrNoCrypto]
  ELSE IF passphrase = <<>>
  THEN [c EXCEPT !.pc = "decryptThrew", !.K2 = passphrase, !.err = ErrNoPassphrase]
  ELSE LET s == SaltOf(c.salt, fresh)
           key == deriveKey(passphrase, s.salt)
           combined == base64ToArrayBuffer(c.blob)
           iv == SubSeq(combined, 1, ivLength)
           encryptedData == SubSeq(combined, ivLength + 1, Len(combined))
           d == SubtleDecrypt(key, iv, encryptedData, c.sealed)
           c2 == [c EXCEPT !.K2 = passphrase, !.salt = s.stored] IN
       IF ~atobAccepts(c.blob)
       THEN [c2 EXCEPT !.pc = "decryptThrew", !.err = ErrDecryptFailed]
       ELSE IF d.ok
       THEN [c2 EXCEPT !.pc = "decrypted", !.out = TextDecode(d.data)]
       ELSE [c2 EXCEPT !.pc = "decryptThrew", !.err = ErrOperation]

\* What may happen to a stored blob: a character changed, the blob cut down to
\* the iv, its last three characters lost, a foreign character put in.
Tampers == {"flip", "short", "cut", "junk"}
Tampered(blob, kind) ==
  IF kind = "flip" THEN [blob EXCEPT ![17] = (@ + 1) % 64]
  ELSE IF kind = "short" THEN SubSeq(blob, 1, 16)
  ELSE IF kind = "cut" THEN SubSeq(blob, 1, Len(blob) - 3)
  ELSE [blob EXCEPT ![1] = NotBase64]

Encrypts(iv, fresh) ==
  /\ cr.pc = "start"
  /\ cr' = encrypt(cr, iv, fresh)
  /\ UNCHANGED <<now, tab, mig, ls, saltGen, drive, cfg, lsp, gdp, orch, pendingData, saveTimeout,
                 inflight, sw, ld, pcall, last, hist, ops>>

\* The blob is corrupted or tampered with between the two calls.
Corrupts(kind) ==
  /\ cr.pc = "encrypted" /\ cr.tamper = "none"
  /\ cr' = [cr EXCEPT !.tamper = kind, !.blob = Tampered(@, kind)]
  /\ UNCHANGED <<now, tab, mig, ls, saltGen, drive, cfg, lsp, gdp, orch, pendingData, saveTimeout,
                 inflight, sw, ld, pcall, last, hist, ops>>

Decrypts(passphrase, fresh) ==
  /\ cr.pc = "encrypted"
  /\ cr' = decrypt(cr, passphrase, fresh)
  /\ UNCHANGED <<now, tab, mig, ls, saltGen, drive, cfg, lsp, gdp, orch, pendingData, saveTimeout,
                 inflight, sw, ld, pcall, last, hist, ops>>

\* Any plaintext and passphrase, a salt stored by an earlier call or none yet,
\* in a browser with or without the Web Crypto API.
InitCrypto ==
  /\ \E plaintext \in Plaintexts, passphrase \in CryptoPassphrases,
        stored \in {<<>>} \cup {arrayBufferToBase64(s) : s \in RandomBytes(saltLength)},
        available \in BOOLEAN :
       cr = CryptoRun(plaintext, passphrase, stored, available)
  /\ ls = FreshLocalStore
  /\ lsp = FreshLsp
  /\ gdp = FreshGdp
  /\ orch = Loaded(LocalId, EmptyData)
  /\ drive = <<>>
  /\ cfg = [clientId |-> TRUE]
  /\ now = 0
  /\ tab = NoTab
  /\ mig = NoMig
  /\ saltGen = 0
  /\ pendingData = NullEnv
  /\ saveTimeout = NoProvider
  /\ inflight = <<>>
  /\ sw = NoSwitch
  /\ ld = <<>>
  /\ pcall = NoCall
  /\ last = NoLast
  /\ hist = NoHist
  /\ ops = 0

NextCrypto ==
  \/ \E iv \in RandomBytes(ivLength), fresh \in RandomBytes(saltLength) : Encrypts(iv, fresh)
  \/ \E kind \in Tampers : Corrupts(kind)
  \/ \E k \in CryptoPassphrases, fresh \in RandomBytes(saltLength) : Decrypts(k, fresh)

SpecCrypto == InitCrypto /\ [][NextCrypto]_vars

\* decrypt has returned or thrown.
DecryptEnded == cr.pc \in {"decrypted", "decryptThrew"}

\* A run of decrypt(encrypt(P, K), K) has ended: encrypt threw, or decrypt was
\* given encrypt's blob and passphrase and returned or threw.
CryptoEnded ==
  \/ cr.pc = "encryptThrew"
  \/ DecryptEnded /\ cr.K2 = cr.K /\ cr.tamper = "none"

\* C20 as claimed. For every plaintext P and passphrase K, decrypt(encrypt(P, K), K)
\* returns P, both calls using the same persisted salt.
RoundTripAlways ==
  CryptoEnded => cr.pc = "decrypted" /\ cr.out = cr.P

\* The runs in which the Web Crypto API is available, the passphrase has at
\* least 8 characters, and the plaintext is well-formed and does not begin with
\* a byte order mark.
RoundTripApplies ==
  /\ cr.crypto
  /\ Len(cr.K) >= MinPassphraseLength
  /\ WellFormed(cr.P)
  /\ cr.P # <<>> => cr.P[1] # 65279

\* C20 as amended. With the Web Crypto API available, for every passphrase K of
\* at least 8 characters and every well-formed plaintext P that does not begin
\* with U+FEFF, decrypt(encrypt(P, K), K) returns P, both calls using the same
\* persisted salt; encrypt throws for a shorter passphrase.
RoundTrip ==
  /\ (CryptoEnded /\ RoundTripApplies) => cr.pc = "decrypted" /\ cr.out = cr.P
  /\ (CryptoEnded /\ cr.crypto /\ Len(cr.K) < MinPassphraseLength) =>
        cr.pc = "encryptThrew" /\ cr.err = ErrShort

\* C20 witness: U+1F600 has been encrypted under a salt created by that call and
\* decrypted again.
RoundTripWitness ==
  /\ cr.pc = "decrypted" /\ RoundTripApplies
  /\ cr.P = <<55357, 56832>> /\ cr.out = cr.P
  /\ cr.K2 = cr.K /\ cr.tamper = "none"
  /\ cr.salt # <<>>
  /\ Len(base64ToArrayBuffer(cr.blob)) = ivLength + 4 + tagLength \div 8

Untampered(c) ==
  [c EXCEPT !.pc = "encrypted", !.tamper = "none", !.err = NoErr, !.out = <<>>,
            !.blob = arrayBufferToBase64(c.sealed.iv \o c.sealed.buf)]

\* C24: decrypt() called with the right passphrase on a corrupted or tampered
\* blob fails with the same error as decrypt() called on the intact blob with
\* any other passphrase, so that the error does not tell the two causes apart.
DecryptFailuresAlike ==
  (cr.pc = "decryptThrew" /\ cr.tamper # "none" /\ cr.K2 = cr.K) =>
     \A k \in CryptoPassphrases \ {<<>>} :
        TextEncode(k) # TextEncode(cr.K) =>
           /\ decrypt(Untampered(cr), k, <<>>).pc = "decryptThrew"
           /\ decrypt(Untampered(cr), k, <<>>).err = cr.err

\* ------------------------------------------------------ envelope migration

\* What validateAndMigrateBudgetData may be given: envelopes of the current
\* version, of an older one and with an empty version, objects without a
\* version, arrays of transactions, and envelopes of the current version whose
\* payload lacks its transactions, its settings and pay-period configuration,
\* or everything.
TxLists == {<<>>, <<"a">>, <<"b", "a">>}
RawInputs ==
  {[version |-> v, tx |-> tx, settings |-> s, ppc |-> c] :
     v \in {DATA_FORMAT_VERSION, "0.9", ""}, tx \in TxLists, s \in Objects, c \in Objects}
  \cup {RawObject(tx, s, c) : tx \in TxLists, s \in Objects, c \in Objects}
  \cup {RawArray(tx) : tx \in TxLists}
  \cup {[version |-> DATA_FORMAT_VERSION, settings |-> s, ppc |-> c] :
          s \in Objects, c \in Objects}
  \cup {[version |-> DATA_FORMAT_VERSION, tx |-> tx] : tx \in TxLists}
  \cup {[version |-> DATA_FORMAT_VERSION]}

Migrates ==
  /\ mig.pc = "start"
  /\ mig' = [mig EXCEPT !.pc = "once", !.out = validateAndMigrateBudgetData(mig.raw)]
  /\ UNCHANGED <<now, tab, cr, ls, saltGen, drive, cfg, lsp, gdp, orch, pendingData,
                 saveTimeout, inflight, sw, ld, pcall, last, hist, ops>>

\* The result is migrated again, as load() does with an envelope that an import
\* or a legacy migration stored.
MigratesAgain ==
  /\ mig.pc = "once"
  /\ mig' = [mig EXCEPT !.pc = "twice", !.again = validateAndMigrateBudgetData(mig.out)]
  /\ UNCHANGED <<now, tab, cr, ls, saltGen, drive, cfg, lsp, gdp, orch, pendingData,
                 saveTimeout, inflight, sw, ld, pcall, last, hist, ops>>

InitMigrate ==
  /\ \E raw \in RawInputs : mig = [pc |-> "start", raw |-> raw, out |-> NullEnv, again |-> NullEnv]
  /\ cr = NoCrypt
  /\ ls = FreshLocalStore
  /\ lsp = FreshLsp
  /\ gdp = FreshGdp
  /\ orch = Loaded(LocalId, EmptyData)
  /\ drive = <<>>
  /\ cfg = [clientId |-> TRUE]
  /\ now = 0
  /\ tab = NoTab
  /\ saltGen = 0
  /\ pendingData = NullEnv
  /\ saveTimeout = NoProvider
  /\ inflight = <<>>
  /\ sw = NoSwitch
  /\ ld = <<>>
  /\ pcall = NoCall
  /\ last = NoLast
  /\ hist = NoHist
  /\ ops = 0

NextMigrate == Migrates \/ MigratesAgain

SpecMigrate == InitMigrate /\ [][NextMigrate]_vars

\* C22. validateAndMigrateBudgetData returns an envelope that carries a version
\* unchanged, and migrating the result of a migration returns it unchanged.
MigrationIdempotent ==
  /\ (mig.pc \in {"once", "twice"} /\ "version" \in DOMAIN mig.raw /\ mig.raw.version # "") =>
        mig.out = mig.raw
  /\ mig.pc = "twice" => mig.again = mig.out

\* C22 witness: an object without a version has been migrated to an envelope of
\* the current version holding its two transactions, and migrated again.
MigrationIdempotentWitness ==
  /\ mig.pc = "twice"
  /\ mig.raw = RawObject(<<"b", "a">>, 1, 2)
  /\ mig.out = createBudgetData(<<"b", "a">>, 1, 2)
  /\ mig.again = mig.out

\* Envelope e has a format version, a list of transactions, settings and a
\* pay-period configuration.
WellShaped(e) ==
  /\ {"version", "tx", "settings", "ppc"} \subseteq DOMAIN e
  /\ e.version # ""
  /\ e.tx \in Seq(Ids) /\ e.settings \in Objects /\ e.ppc \in Objects

\* C34: whatever was stored or imported, the envelope that
\* validateAndMigrateBudgetData hands to load() and importFromFile has a format
\* version and a payload with a list of transactions, settings and a pay-period
\* configuration.
LoadedEnvelopeShape ==
  mig.pc \in {"once", "twice"} => WellShaped(mig.out)

\* C36: migrating a legacy array yields an envelope of the current version
\* whose transactions are that array, element for element and in order, with
\* empty settings; migrating a legacy object without a version yields an
\* envelope of the current version with the object's transactions, settings and
\* pay-period configuration.
LegacyMigrationKeeps ==
  (mig.pc \in {"once", "twice"} /\ "version" \notin DOMAIN mig.raw) =>
     /\ mig.out.version = DATA_FORMAT_VERSION
     /\ "array" \in DOMAIN mig.raw =>
          mig.out.tx = mig.raw.array /\ mig.out.settings = Absent
     /\ "array" \notin DOMAIN mig.raw =>
          /\ mig.out.tx = mig.raw.tx
          /\ mig.out.settings = mig.raw.settings
          /\ mig.out.ppc = mig.raw.ppc

\* C36 witness: a legacy array of two transactions has been migrated.
LegacyMigrationKeepsWitness ==
  /\ mig.pc = "once"
  /\ mig.raw = RawArray(<<"b", "a">>)
  /\ mig.out = createBudgetData(<<"b", "a">>, Absent, Absent)


\* ------------------------------------------------------------------ two tabs

\* Two tabs of the same origin share the device store, and each has constructed
\* its own LocalStorageProvider. The calls are made on one provider object at a
\* time: from here on they are made in the other tab, whose provider object and
\* suspended save() trade places with this tab's.
OtherTabRuns ==
  /\ tab.lsp # lsp \/ tab.pcall # pcall
  /\ tab' = [tab EXCEPT !.lsp = lsp, !.pcall = pcall]
  /\ lsp' = tab.lsp
  /\ pcall' = tab.pcall
  /\ UNCHANGED <<now, cr, mig, ls, saltGen, drive, cfg, gdp, orch, pendingData, saveTimeout,
                 inflight, sw, ld, last, hist, ops>>

\* Both tabs were loaded on a store without encryption, or on one whose record
\* is encrypted under a passphrase that this tab or both tabs hold.
InitTwoTabs ==
  /\ \E mode \in {"plain", "oneUnlocked", "bothUnlocked"}, e \in SomeEnvs :
       LET held == [FreshLsp EXCEPT !.passphrase = "Str0ngPass1", !.encryptionEnabled = TRUE,
                                    !.status = "synced"]
           locked == [FreshLsp EXCEPT !.encryptionEnabled = TRUE]
       IN
       /\ ls = IF mode = "plain" THEN [FreshLocalStore EXCEPT !.data = Plain(e)]
               ELSE [FreshLocalStore EXCEPT !.data = Cipher(e, "Str0ngPass1", 1),
                                            !.flag = TRUE, !.salt = 1]
       /\ saltGen = IF mode = "plain" THEN 0 ELSE 1
       /\ lsp = IF mode = "plain" THEN FreshLsp ELSE held
       /\ tab = [NoTab EXCEPT !.lsp = IF mode = "plain" THEN FreshLsp
                                      ELSE IF mode = "oneUnlocked" THEN locked ELSE held]
       /\ orch = Loaded(LocalId, e)
  /\ drive = <<>>
  /\ gdp = FreshGdp
  /\ cfg = [clientId |-> TRUE]
  /\ now = 0
  /\ mig = NoMig
  /\ cr = NoCrypt
  /\ pendingData = NullEnv
  /\ saveTimeout = NoProvider
  /\ inflight = <<>>
  /\ sw = NoSwitch
  /\ ld = <<>>
  /\ pcall = NoCall
  /\ last = NoLast
  /\ hist = NoHist
  /\ ops = 0

\* Calls made in the two tabs together in one run.
MaxTabCalls == 3

\* The calls of either tab, every write to the store succeeding.
NextTwoTabs ==
  \/ ops < MaxTabCalls /\ ProviderLoad(LocalId, "ok", "ok")
  \/ \E e \in CallEnvs : ops < MaxTabCalls /\ ProviderSave(LocalId, e, "ok")
  \/ ProviderSaveReturns("ok")
  \/ \E k \in Passphrases : ops < MaxTabCalls /\ setPassphrase(k)
  \/ \E k \in Passphrases : ops < MaxTabCalls /\ enableEncryption(k, "ok")
  \/ \E k \in Passphrases : ops < MaxTabCalls /\ disableEncryption(k, "ok")
  \/ OtherTabRuns

SpecTwoTabs == InitTwoTabs /\ [][NextTwoTabs]_vars

\* C28: whenever the stored data record is ciphertext, the encryption flag is
\* persisted and the persisted salt is the one the record was encrypted under.
CiphertextHasFlagAndSalt ==
  ls.data.kind = "cipher" => ls.flag /\ ls.data.salt = ls.salt

====
